---- MODULE Spec2Model ----
(***************************************************************************)
(* Keccak-256 sponge of package keccak (keccak.go): the one-shot Sum256,   *)
(* the streaming Hasher (Reset, Write, Sum256), xorIn and le64, over the   *)
(* Keccak-f[1600] permutation.                                             *)
(*                                                                         *)
(* Representation.  A Go byte is an integer 0..255.  A Go array or slice   *)
(* is a TLA+ sequence, so Go's index i is TLA+'s index i + 1.  A uint64 is *)
(* the sequence of its eight base-256 digits, least significant first      *)
(* (TLC's integers are 32 bits wide, so the digits are kept apart).        *)
(***************************************************************************)
EXTENDS Integers, Sequences, FiniteSets, TLC

\* rate is the sponge rate for Keccak-256: (1600 - 2*256) / 8 = 136 bytes.
rate == 136

\* A Go array value: the sequence with every element evaluated.
Array(f) == f \o <<>>

Byte == 0..255

(***************************************************************************)
(* Byte arithmetic: Go's ^ and &^ on bytes, from their bits.               *)
(***************************************************************************)
RECURSIVE XorBits(_, _, _)
XorBits(a, b, n) ==
    IF n = 0 THEN 0
    ELSE (((a % 2) + (b % 2)) % 2) + 2 * XorBits(a \div 2, b \div 2, n - 1)

RECURSIVE AndBits(_, _, _)
AndBits(a, b, n) ==
    IF n = 0 THEN 0
    ELSE ((a % 2) * (b % 2)) + 2 * AndBits(a \div 2, b \div 2, n - 1)

\* XorTable[a + 1][b + 1] = a ^ b for bytes a, b.
XorTable == Array([p \in 1..256 |-> Array([q \in 1..256 |-> XorBits(p - 1, q - 1, 8)])])

\* a ^ b on bytes.
Xor8(a, b) == XorTable[a + 1][b + 1]

(***************************************************************************)
(* Keccak-f[1600], the standard 24-round permutation of the 200-byte       *)
(* state: lane (x, y) is the little-endian uint64 at bytes 8(x+5y)..+7.    *)
(* Inside the permutation a byte v is held as v + 1, so that it indexes    *)
(* the tables directly.                                                    *)
(***************************************************************************)
XorP == Array([p \in 1..256 |-> Array([q \in 1..256 |-> XorTable[p][q] + 1])])
AndNotP == Array([p \in 1..256 |-> Array([q \in 1..256 |-> AndBits(256 - p, q - 1, 8) + 1])])
Pow2 == <<1, 2, 4, 8, 16, 32, 64, 128, 256>>
\* ShlP[s + 1][v + 1] = ((v << s) mod 256) + 1,  ShrP[s + 1][v + 1] = v >> (8 - s)
ShlP == Array([s \in 1..8 |-> Array([p \in 1..256 |-> (((p - 1) * Pow2[s]) % 256) + 1])])
ShrP == Array([s \in 1..8 |-> Array([p \in 1..256 |-> (p - 1) \div Pow2[10 - s]])])

\* The 24 round constants, each as its eight bytes, least significant first.
RoundConstants == <<
    <<1,0,0,0,0,0,0,0>>,       <<130,128,0,0,0,0,0,0>>,   <<138,128,0,0,0,0,0,128>>,
    <<0,128,0,128,0,0,0,128>>, <<139,128,0,0,0,0,0,0>>,   <<1,0,0,128,0,0,0,0>>,
    <<129,128,0,128,0,0,0,128>>, <<9,128,0,0,0,0,0,128>>, <<138,0,0,0,0,0,0,0>>,
    <<136,0,0,0,0,0,0,0>>,     <<9,128,0,128,0,0,0,0>>,   <<10,0,0,128,0,0,0,0>>,
    <<139,128,0,128,0,0,0,0>>, <<139,0,0,0,0,0,0,128>>,   <<137,128,0,0,0,0,0,128>>,
    <<3,128,0,0,0,0,0,128>>,   <<2,128,0,0,0,0,0,128>>,   <<128,0,0,0,0,0,0,128>>,
    <<10,128,0,0,0,0,0,0>>,    <<10,0,0,128,0,0,0,128>>,  <<129,128,0,128,0,0,0,128>>,
    <<128,128,0,0,0,0,0,128>>, <<1,0,0,128,0,0,0,0>>,     <<8,128,0,128,0,0,0,128>> >>
RoundConstantsP == Array([i \in 1..24 |-> Array([j \in 1..8 |-> RoundConstants[i][j] + 1])])

\* The rotation offset of lane (x, y), at index x + 5y + 1.
RotationOffsets == <<0, 1, 62, 28, 27,  36, 44, 6, 55, 20,  3, 10, 43, 25, 39,
                     41, 45, 15, 21, 8,  18, 2, 61, 56, 14>>

\* theta: C[x] = A[x,0] ^ .. ^ A[x,4];  D[x] = C[x-1] ^ rotl(C[x+1], 1);  A[x,y] ^= D[x].
\* Byte j of the 40 column bytes belongs to column (j-1) div 8, byte (j-1) mod 8.
ThetaLeft == Array([j \in 1..40 |-> 8 * ((((j - 1) \div 8) + 4) % 5) + ((j - 1) % 8) + 1])
ThetaRight == Array([j \in 1..40 |-> 8 * ((((j - 1) \div 8) + 1) % 5) + ((j - 1) % 8) + 1])
ThetaRightLow == Array([j \in 1..40 |-> 8 * ((((j - 1) \div 8) + 1) % 5) + ((j + 6) % 8) + 1])
ThetaColumn == Array([j \in 1..200 |-> ((j - 1) % 40) + 1])
Theta(a) ==
    LET c == Array([j \in 1..40 |->
                XorP[XorP[XorP[XorP[a[j]][a[j + 40]]][a[j + 80]]][a[j + 120]]][a[j + 160]]])
        d == Array([j \in 1..40 |->
                XorP[c[ThetaLeft[j]]][ShlP[2][c[ThetaRight[j]]] + ShrP[2][c[ThetaRightLow[j]]]]])
    IN Array([j \in 1..200 |-> XorP[a[j]][d[ThetaColumn[j]]]])

\* rho and pi: B[y, 2x+3y] = rotl(A[x,y], r[x,y]).  Byte j of the result lies in lane
\* (lx, ly) and comes from lane (sx, sy) = (lx + 3 ly, lx) rotated left by r = 8q + sh:
\* its high part from source byte k - q, its low part from source byte k - q - 1.
RhoPiSource(j) ==
    LET l == (j - 1) \div 8
        k == (j - 1) % 8
        lx == l % 5
        ly == l \div 5
        sx == (lx + 3 * ly) % 5
        sy == lx
        r == RotationOffsets[sx + 5 * sy + 1]
        q == r \div 8
        sh == r % 8
        base == 8 * (sx + 5 * sy)
    IN <<base + ((k + 8 - q) % 8) + 1, base + ((k + 15 - q) % 8) + 1, sh + 1>>
RhoPiHigh == Array([j \in 1..200 |-> RhoPiSource(j)[1]])
RhoPiLow == Array([j \in 1..200 |-> RhoPiSource(j)[2]])
RhoPiShl == Array([j \in 1..200 |-> ShlP[RhoPiSource(j)[3]]])
RhoPiShr == Array([j \in 1..200 |-> ShrP[RhoPiSource(j)[3]]])
RhoPi(a) ==
    Array([j \in 1..200 |-> RhoPiShl[j][a[RhoPiHigh[j]]] + RhoPiShr[j][a[RhoPiLow[j]]]])

\* chi: A[x,y] = B[x,y] ^ (~B[x+1,y] & B[x+2,y]).
ChiIndex(j, d) ==
    LET l == (j - 1) \div 8
        k == (j - 1) % 8
        lx == l % 5
        ly == l \div 5
    IN 8 * (((lx + d) % 5) + 5 * ly) + k + 1
ChiNext == Array([j \in 1..200 |-> ChiIndex(j, 1)])
ChiNextNext == Array([j \in 1..200 |-> ChiIndex(j, 2)])
Chi(a) ==
    Array([j \in 1..200 |-> XorP[a[j]][AndNotP[a[ChiNext[j]]][a[ChiNextNext[j]]]]])

\* iota: A[0,0] ^= RC[i].
Iota(a, i) == [j \in 1..8 |-> XorP[a[j]][RoundConstantsP[i][j]]] \o SubSeq(a, 9, 200)

RECURSIVE KeccakRounds(_, _)
KeccakRounds(a, i) ==
    IF i > 24 THEN a
    ELSE LET b == Iota(Chi(RhoPi(Theta(a))), i)
         IN IF Len(b) = 200 THEN KeccakRounds(b, i + 1) ELSE <<>>

\* keccakF1600(a *[200]byte): the state after the permutation.
keccakF1600(a) ==
    LET r == KeccakRounds(Array([j \in 1..200 |-> a[j] + 1]), 1)
    IN Array([j \in 1..200 |-> r[j] - 1])

(***************************************************************************)
(* The sponge (keccak.go).  An operation that indexes or slices yields     *)
(* ok = FALSE where the Go runtime's bounds check would panic, and its     *)
(* caller then stops.  perms counts the calls of keccakF1600 it made.      *)
(***************************************************************************)
Zero200 == Array([j \in 1..200 |-> 0])

\* le64's `_ = b[7]`: the index is in range.
le64InRange(b) == 7 < Len(b)

\* le64 reading big-endian: b[0] is shifted to the top digit.
le64_BigEndian(b) == [k \in 1..8 |-> b[9 - k]]

\* le64(b): uint64(b[0]) | uint64(b[1])<<8 | ... | uint64(b[7])<<56, as base-256 digits:
\* b[k] is shifted to digit k.
le64(b) == [k \in 1..8 |-> b[k]]

\* stateU64[i] of (*[25]uint64)(unsafe.Pointer(state)): the lane at bytes 8i..8i+7,
\* read in the machine's (little-endian) byte order.
LoadU64(state, i) == SubSeq(state, 8 * i + 1, 8 * i + 8)

\* stateU64[i] = w
StoreU64(state, i, w) == SubSeq(state, 1, 8 * i) \o w \o SubSeq(state, 8 * i + 9, 200)

\* u ^ v on uint64
Xor64(u, v) == [k \in 1..8 |-> Xor8(u[k], v[k])]

\* for i := 0; i < n; i++ { stateU64[i] ^= le64(data[8*i:]) }
RECURSIVE xorInWords(_, _, _, _)
xorInWords(state, data, i, n) ==
    IF ~(i < n) THEN [state |-> state, ok |-> TRUE]
    ELSE IF ~(i < 25 /\ 8 * i <= Len(data)) THEN [state |-> state, ok |-> FALSE]
    ELSE LET b == SubSeq(data, 8 * i + 1, Len(data))
         IN IF ~le64InRange(b) THEN [state |-> state, ok |-> FALSE]
            ELSE LET s == StoreU64(state, i, Xor64(LoadU64(state, i), le64(b)))
                 IN IF Len(s) = 200 THEN xorInWords(s, data, i + 1, n)
                    ELSE [state |-> s, ok |-> FALSE]

\* for i := n << 3; i < len(data); i++ { state[i] ^= data[i] }
RECURSIVE xorInBytes(_, _, _)
xorInBytes(state, data, i) ==
    IF ~(i < Len(data)) THEN [state |-> state, ok |-> TRUE]
    ELSE IF ~(i < 200) THEN [state |-> state, ok |-> FALSE]
    ELSE LET s == [state EXCEPT ![i + 1] = Xor8(@, data[i + 1])]
         IN IF Len(s) = 200 THEN xorInBytes(s, data, i + 1)
            ELSE [state |-> s, ok |-> FALSE]

\* xorIn without its second loop: the len(data) % 8 bytes after the last whole lane
\* are not absorbed.
xorIn_WordsOnly(state, data) ==
    xorInWords(state, data, 0, Len(data) \div 8)

\* xorIn with the lane count rounded up, n := (len(data) + 7) >> 3: the last lane is
\* read from fewer than 8 bytes.
xorIn_RoundUp(state, data) ==
    LET n == (Len(data) + 7) \div 8
        w == xorInWords(state, data, 0, n)
    IN IF w.ok THEN xorInBytes(w.state, data, n * 8) ELSE w

\* xorIn XORs data into the beginning of state.
xorIn(state, data) ==
    LET n == Len(data) \div 8
        w == xorInWords(state, data, 0, n)
    IN IF w.ok THEN xorInBytes(w.state, data, n * 8) ELSE w

\* The end bit written with a store, state[rate-1] = 0x80, in place of the XOR.
PadEnd_Store(state) == [state EXCEPT ![rate] = 128]

\* state[t] ^= 0x01: the domain bits of Keccak after the t bytes of the tail.
PadDomain(state, t) == [state EXCEPT ![t + 1] = Xor8(@, 1)]

\* state[rate-1] ^= 0x80: the end bit of pad10*1.
PadEnd(state) == [state EXCEPT ![rate] = Xor8(@, 128)]

\* The padding with SHA-3's domain byte, state[t] ^= 0x06, in place of Keccak's 0x01.
PadAndSqueeze_SHA3(state, t) ==
    IF ~(0 <= t /\ t < 200) THEN [digest |-> <<>>, ok |-> FALSE]
    ELSE LET s1 == [state EXCEPT ![t + 1] = Xor8(@, 6)]
             s2 == [s1 EXCEPT ![rate] = Xor8(@, 128)]
         IN [digest |-> SubSeq(keccakF1600(s2), 1, 32), ok |-> TRUE]

\* The padding and the squeeze that end Sum256 and Hasher.Sum256:
\* state[t] ^= 0x01; state[rate-1] ^= 0x80; keccakF1600(&state); return [32]byte(state[:32])
PadAndSqueeze(state, t) ==
    IF ~(0 <= t /\ t < 200) THEN [digest |-> <<>>, ok |-> FALSE]
    ELSE [digest |-> SubSeq(keccakF1600(PadEnd(PadDomain(state, t))), 1, 32), ok |-> TRUE]

\* One turn of Sum256's loop, taken when len(data) >= rate:
\* xorIn(&state, data[:rate]); keccakF1600(&state); data = data[rate:]
Sum256Block(state, data) ==
    LET x == xorIn(state, SubSeq(data, 1, rate))
    IN IF ~x.ok THEN [state |-> x.state, data |-> data, ok |-> FALSE]
       ELSE LET s == keccakF1600(x.state)
            IN [state |-> s, data |-> SubSeq(data, rate + 1, Len(data)), ok |-> Len(s) = 200]

\* for len(data) >= rate { ... }
RECURSIVE Sum256Loop(_, _, _)
Sum256Loop(state, data, perms) ==
    IF ~(Len(data) >= rate) THEN [state |-> state, data |-> data, ok |-> TRUE, perms |-> perms]
    ELSE LET b == Sum256Block(state, data)
         IN IF b.ok THEN Sum256Loop(b.state, b.data, perms + 1)
            ELSE [state |-> b.state, data |-> b.data, ok |-> FALSE, perms |-> perms]

\* What follows Sum256's loop, on the tail of fewer than rate bytes:
\* xorIn(&state, data); state[len(data)] ^= 0x01; state[rate-1] ^= 0x80;
\* keccakF1600(&state); return [32]byte(state[:32])
Sum256Tail(state, data) ==
    LET x == xorIn(state, data)
    IN IF ~x.ok THEN [digest |-> <<>>, ok |-> FALSE]
       ELSE PadAndSqueeze(x.state, Len(data))

\* A call's result: the digest f.digest, whether it completed, and the permutations it
\* ran, perms before the last one.
Returned(f, perms) ==
    [digest |-> f.digest, ok |-> f.ok, perms |-> IF f.ok THEN perms + 1 ELSE perms]

\* Sum256 from the end of its loop, l being what the loop left.
Sum256AfterLoop(l) ==
    IF ~l.ok THEN [digest |-> <<>>, ok |-> FALSE, perms |-> l.perms]
    ELSE Returned(Sum256Tail(l.state, l.data), l.perms)

\* Sum256 computes the Keccak-256 hash of data.
Sum256(data) == Sum256AfterLoop(Sum256Loop(Zero200, data, 0))

\* The zero value of Hasher: state [200]byte, buf [rate]byte, absorbed int.
ZeroHasher == [state |-> Zero200, buf |-> Array([j \in 1..rate |-> 0]), absorbed |-> 0]

\* Reset without `h.absorbed = 0`.
Hasher_Reset_KeepAbsorbed(h) == [state |-> Zero200, buf |-> h.buf, absorbed |-> h.absorbed]

\* Reset resets the hasher to its initial state.
Hasher_Reset(h) == [state |-> Zero200, buf |-> h.buf, absorbed |-> 0]

\* Go's builtin copy(dst, src): copies min(len(dst), len(src)) elements and returns
\* that number.
copy(dst, src) ==
    LET n == IF Len(dst) < Len(src) THEN Len(dst) ELSE Len(src)
    IN [n |-> n, dst |-> SubSeq(src, 1, n) \o SubSeq(dst, n + 1, Len(dst))]

\* The top-up without `h.absorbed = 0` after the full buffer is absorbed.
TopUpAbsorb_NoClear(h, p, x) ==
    IF ~x.ok THEN [h |-> h, p |-> p, ok |-> FALSE, perms |-> 0]
    ELSE [h |-> [state |-> keccakF1600(x.state), buf |-> h.buf, absorbed |-> h.absorbed],
          p |-> p, ok |-> TRUE, perms |-> 1]

\* xorIn(&h.state, h.buf[:]); keccakF1600(&h.state); h.absorbed = 0
\* where x is what xorIn left.
TopUpAbsorb(h, p, x) ==
    IF ~x.ok THEN [h |-> h, p |-> p, ok |-> FALSE, perms |-> 0]
    ELSE [h |-> [state |-> keccakF1600(x.state), buf |-> h.buf, absorbed |-> 0],
          p |-> p, ok |-> TRUE, perms |-> 1]

\* if h.absorbed == rate { ... }
TopUpFull(h, p) ==
    IF h.absorbed = rate THEN TopUpAbsorb(h, p, xorIn(h.state, h.buf))
    ELSE [h |-> h, p |-> p, ok |-> TRUE, perms |-> 0]

\* The top-up without `p = p[n:]`: the bytes copied to the buffer stay in p.
TopUpCopied_KeepP(h, p, lo, c) ==
    IF ~(c.n <= Len(p)) THEN [h |-> h, p |-> p, ok |-> FALSE, perms |-> 0]
    ELSE TopUpFull([state |-> h.state,
                    buf |-> SubSeq(h.buf, 1, lo) \o c.dst
                            \o SubSeq(h.buf, lo + Len(c.dst) + 1, rate),
                    absorbed |-> h.absorbed + c.n],
                   p)

\* h.absorbed += n; p = p[n:] and the rest of the top-up, where c is what
\* copy(h.buf[lo:...], p) did and returned.
TopUpCopied(h, p, lo, c) ==
    IF ~(c.n <= Len(p)) THEN [h |-> h, p |-> p, ok |-> FALSE, perms |-> 0]
    ELSE TopUpFull([state |-> h.state,
                    buf |-> SubSeq(h.buf, 1, lo) \o c.dst
                            \o SubSeq(h.buf, lo + Len(c.dst) + 1, rate),
                    absorbed |-> h.absorbed + c.n],
                   SubSeq(p, c.n + 1, Len(p)))

\* The top-up copying to the start of the buffer, n := copy(h.buf[:rate-h.absorbed], p),
\* over the bytes pending there.
WriteTopUp_Overwrite(h, p) ==
    IF ~(h.absorbed > 0) THEN [h |-> h, p |-> p, ok |-> TRUE, perms |-> 0]
    ELSE IF ~(h.absorbed <= rate) THEN [h |-> h, p |-> p, ok |-> FALSE, perms |-> 0]
    ELSE TopUpCopied(h, p, 0, copy(SubSeq(h.buf, 1, rate - h.absorbed), p))

\* if h.absorbed > 0 { n := copy(h.buf[h.absorbed:rate], p); h.absorbed += n; p = p[n:]
\*   if h.absorbed == rate { xorIn(&h.state, h.buf[:]); keccakF1600(&h.state); h.absorbed = 0 } }
WriteTopUp(h, p) ==
    IF ~(h.absorbed > 0) THEN [h |-> h, p |-> p, ok |-> TRUE, perms |-> 0]
    ELSE IF ~(h.absorbed <= rate) THEN [h |-> h, p |-> p, ok |-> FALSE, perms |-> 0]
    ELSE TopUpCopied(h, p, h.absorbed, copy(SubSeq(h.buf, h.absorbed + 1, rate), p))

\* One turn of Write's loop, taken when len(p) >= rate:
\* xorIn(&h.state, p[:rate]); keccakF1600(&h.state); p = p[rate:]
WriteBlock(h, p) ==
    LET x == xorIn(h.state, SubSeq(p, 1, rate))
    IN IF ~x.ok THEN [h |-> h, p |-> p, ok |-> FALSE]
       ELSE LET s == keccakF1600(x.state)
            IN [h |-> [state |-> s, buf |-> h.buf, absorbed |-> h.absorbed],
                p |-> SubSeq(p, rate + 1, Len(p)), ok |-> Len(s) = 200]

\* for len(p) >= rate { ... }
RECURSIVE WriteLoop(_, _, _)
WriteLoop(h, p, perms) ==
    IF ~(Len(p) >= rate) THEN [h |-> h, p |-> p, ok |-> TRUE, perms |-> perms]
    ELSE LET b == WriteBlock(h, p)
         IN IF b.ok THEN WriteLoop(b.h, b.p, perms + 1)
            ELSE [h |-> b.h, p |-> b.p, ok |-> FALSE, perms |-> perms]

\* if len(p) > 0 { h.absorbed = copy(h.buf[:], p) }
WriteLeftover(h, p) ==
    IF ~(Len(p) > 0) THEN h
    ELSE LET c == copy(h.buf, p)
         IN [state |-> h.state, buf |-> c.dst, absorbed |-> c.n]

\* Write from the end of its loop, l being what the loop left.
WriteAfterLoop(l) ==
    IF ~l.ok THEN [h |-> l.h, ok |-> FALSE, perms |-> l.perms]
    ELSE [h |-> WriteLeftover(l.h, l.p), ok |-> TRUE, perms |-> l.perms]

\* Write from the end of the top-up, t being what the top-up left.
WriteAfterTopUp(t) ==
    IF ~t.ok THEN [h |-> t.h, ok |-> FALSE, perms |-> t.perms]
    ELSE WriteAfterLoop(WriteLoop(t.h, t.p, t.perms))

\* Write absorbs data into the hasher.
Hasher_Write(h, p) == WriteAfterTopUp(WriteTopUp(h, p))

\* Hasher.Sum256 absorbing the whole buffer, xorIn(&state, h.buf[:]), not the pending
\* bytes alone.
Hasher_Sum256Tail_WholeBuf(state, h) ==
    IF ~(0 <= h.absorbed /\ h.absorbed <= rate) THEN [digest |-> <<>>, ok |-> FALSE]
    ELSE LET x == xorIn(state, h.buf)
         IN IF ~x.ok THEN [digest |-> <<>>, ok |-> FALSE]
            ELSE PadAndSqueeze(x.state, h.absorbed)

\* What follows `state := h.state` in Hasher.Sum256, on the copy:
\* xorIn(&state, h.buf[:h.absorbed]); state[h.absorbed] ^= 0x01; state[rate-1] ^= 0x80;
\* keccakF1600(&state); return [32]byte(state[:32])
Hasher_Sum256Tail(state, h) ==
    IF ~(0 <= h.absorbed /\ h.absorbed <= rate) THEN [digest |-> <<>>, ok |-> FALSE]
    ELSE LET x == xorIn(state, SubSeq(h.buf, 1, h.absorbed))
         IN IF ~x.ok THEN [digest |-> <<>>, ok |-> FALSE]
            ELSE PadAndSqueeze(x.state, h.absorbed)

\* The result of Hasher.Sum256: what the tail f returned, and the receiver h as the
\* call leaves it.
HasherReturned(f, h) ==
    [digest |-> f.digest, h |-> h, ok |-> f.ok, perms |-> IF f.ok THEN 1 ELSE 0]

\* The state after the padding of PadAndSqueeze and the permutation.
PadAndPermute(state, t) ==
    keccakF1600([[state EXCEPT ![t + 1] = Xor8(@, 1)] EXCEPT ![rate] = Xor8(@, 128)])

\* Hasher.Sum256 working on h.state itself, with no copy: the receiver is left padded
\* and permuted.
Hasher_Sum256_InPlace(h) ==
    HasherReturned(Hasher_Sum256Tail(h.state, h),
                   [state |-> PadAndPermute(xorIn(h.state, SubSeq(h.buf, 1, h.absorbed)).state,
                                            h.absorbed),
                    buf |-> h.buf, absorbed |-> h.absorbed])

\* Hasher.Sum256 that ends the stream: it returns the digest and drops the pending
\* bytes, h.absorbed = 0.
Hasher_Sum256_Consume(h) ==
    HasherReturned(Hasher_Sum256Tail(h.state, h),
                   [state |-> h.state, buf |-> h.buf, absorbed |-> 0])

\* Sum256 finalizes and returns the 32-byte Keccak-256 digest.  The result holds the
\* digest and the receiver as the call leaves it: state := h.state is a copy, and
\* only the copy is written.
Hasher_Sum256(h) == HasherReturned(Hasher_Sum256Tail(h.state, h), h)


(***************************************************************************)
(* The state machines.                                                     *)
(*   Spec     one Hasher is fed the bytes of a fixed stream in chunks,     *)
(*            with h.Sum256() and h.Reset() in between, as the package's   *)
(*            tests do (TestHasherStreaming, TestHasherMultiBlock,         *)
(*            FuzzSum256).                                                 *)
(*   SpecSum  the package function Sum256 is applied to an input drawn at  *)
(*            the start.                                                   *)
(*   SpecTwin as Spec, with a second Hasher that is given the same calls   *)
(*            and differs from the first in the stale bytes of its buffer. *)
(*   SpecPar  threads run at once, each calling Sum256 on its own input    *)
(*            and then Write, Write and Sum256 on its own Hasher, one      *)
(*            statement or loop turn at a step.                            *)
(*   SpecStmt one caller runs a script of calls (Sum256, then Write,       *)
(*            Write, Sum256, Reset, Write, Sum256 on one Hasher) in the    *)
(*            arm64 build, one statement of keccak.go at a step.           *)
(*   SpecXor  xorIn is called on an array and on data of 0 to rate bytes.  *)
(*   SpecRace two callers call one Hasher at once (Write and Write, Write  *)
(*            and Reset, Write and Hasher.Sum256), one load or store of    *)
(*            the Hasher at a step.                                        *)
(***************************************************************************)
\* Most non-empty chunks written to the Hasher under Spec, and most Reset calls.
MaxWrites == 3
MaxResets == 1
\* SpecSum's inputs have up to MaxShort bytes, or about one or two blocks.
MaxShort == 48
\* The threads of SpecPar.
NThreads == 2
\* SpecStmt's inputs have up to MaxTail bytes, or about one or two blocks.
MaxTail == 9

\* "hello"
Hello == <<104, 101, 108, 108, 111>>

\* data[i] = byte(i * 7) for i < n (TestHasherMultiBlock)
Data(n) == Array([i \in 1..n |-> ((i - 1) * 7) % 256])

\* The chunk lengths: none, one byte, the 37 of TestHasherMultiBlock, a block less a
\* byte, and two blocks.
ChunkLens == {0, 1, 37, rate - 1, 2 * rate}

\* The stream the Hasher is fed: two blocks and a byte.
Stream == Data(2 * rate + 1)

\* The inputs of the package function.
SumLens == (0..MaxShort) \cup {rate - 1, rate, rate + 1, 2 * rate - 1, 2 * rate, 2 * rate + 1}
Inputs == {Hello} \cup {Data(n) : n \in SumLens}

\* No digest returned yet.
NoDigest == <<>>

\* A Hasher that was Reset with a buffer full of the bytes of an earlier stream.
StaleHasher ==
    [state |-> Zero200, buf |-> Array([j \in 1..rate |-> 255 - ((j * 3) % 256)]),
     absorbed |-> 0]

Threads == 1..NThreads

\* What thread t hashes: a block and 5 + t bytes, different in every thread.
ParData(t) == Array([i \in 1..(rate + 5 + t) |-> ((i - 1) * 7 + t) % 256])

\* The calls of a thread, in order, and the chunks it writes: a block and 5 bytes
\* (one turn of the loop, 5 bytes left pending), then the last t bytes (a top-up).
ParCalls == <<"Sum256", "Write", "Write", "Hasher.Sum256">>
ParChunk(t, c) ==
    IF c = 2 THEN SubSeq(ParData(t), 1, rate + 5)
    ELSE SubSeq(ParData(t), rate + 6, Len(ParData(t)))

\* A variant in which `state` is one package-level array that every call uses.
LocalOf_Shared(t) == 1

\* The `state` array a call of thread t works on: `var state [200]byte` in Sum256 and
\* `state := h.state` in Hasher.Sum256 are locals of the call, one per activation.
LocalOf(t) == t

\* The callers of SpecStmt (where the second makes no call) and of SpecRace.
Callers == {1, 2}

\* The inputs of SpecStmt's script, and where it cuts one into the two chunks it
\* writes first: in the middle, after the 37 bytes of TestHasherMultiBlock, or at
\* the end (the second chunk is empty then).
StmtLens == (0..MaxTail) \cup {rate - 1, rate, rate + 1, 2 * rate + 1}
StmtInputs == {Data(n) : n \in StmtLens}
Splits(d) == {Len(d) \div 2, IF Len(d) < 37 THEN Len(d) ELSE 37, Len(d)}

\* The calls of SpecStmt's caller on the input d cut at s: the one-shot digest, d
\* streamed in two chunks, and, after a Reset, its first block streamed again.
Script(d, s) ==
    << [op |-> "Sum256", arg |-> d],
       [op |-> "Write", arg |-> SubSeq(d, 1, s)],
       [op |-> "Write", arg |-> SubSeq(d, s + 1, Len(d))],
       [op |-> "Hasher.Sum256", arg |-> <<>>],
       [op |-> "Reset", arg |-> <<>>],
       [op |-> "Write", arg |-> SubSeq(d, 1, IF Len(d) < rate THEN Len(d) ELSE rate)],
       [op |-> "Hasher.Sum256", arg |-> <<>>] >>

\* SpecRace: the bytes the Hasher has been fed when the calls begin, and the calls of
\* the first and the second caller ("idle": no call).  Nine bytes pending, and Write
\* of 2 bytes and of 1: both calls top up the buffer.  Nothing pending, and Write of
\* a block and a byte and of 1 byte: one call XORs a block of its chunk into the
\* state, permutes it and leaves a byte, the other leaves its byte or tops up the
\* buffer.  A block and nine bytes, and Write of 1 byte with Reset and with
\* Hasher.Sum256.  One byte short of a block, and Write of 1 byte alone: the call
\* fills the buffer and absorbs it.  In each case at most one of the calls reads or
\* writes h.state.
RaceCases ==
    { [fed |-> 9, ops |-> <<"Write", "Write">>, lens |-> <<2, 1>>],
      [fed |-> 0, ops |-> <<"Write", "Write">>, lens |-> <<rate + 1, 1>>],
      [fed |-> rate + 9, ops |-> <<"Write", "Reset">>, lens |-> <<1, 0>>],
      [fed |-> rate + 9, ops |-> <<"Write", "Hasher.Sum256">>, lens |-> <<1, 0>>],
      [fed |-> rate - 1, ops |-> <<"Write", "idle">>, lens |-> <<1, 0>>] }

\* The bytes fed before the two calls, and the n bytes caller c writes.
RaceStream == Data(rate + 9)
RaceChunk(c, n) == Array([i \in 1..n |-> (i * 7 + 50 * c) % 256])

\* No call of xorIn yet.
NoXorIn == [before |-> <<>>, data |-> <<>>, after |-> <<>>, ok |-> TRUE]

\* The activation of a call: the function op, the line of keccak.go it is at, its
\* argument as passed (arg) and the Hasher as it was then (entry), the slice data or p
\* as the call has cut it, n, the array `state` of Sum256 and Hasher.Sum256, the
\* permutations the call has run (perms), its latest call of xorIn (xin), what it
\* returned (ret), and whether it panicked.  Where the accesses of a statement to
\* the Hasher are steps of their own (SpecRace): the value of h.absorbed the call
\* holds in a register (a), the index of the loop of copy, xorIn or the permutation
\* (i), whether the statement has loaded and has still to store (ph = 1), the
\* lane it holds, or the bytes of it that le64 has loaded, and the values the call
\* has stored in h.absorbed, and the <<j, v>> for which it has stored v in
\* h.buf[j], in order (st).
NoStores == [absorbed |-> <<>>, buf |-> <<>>]
IdleFrame ==
    [op |-> "idle", line |-> 0, arg |-> <<>>, entry |-> ZeroHasher, p |-> <<>>, n |-> 0,
     state |-> Zero200, perms |-> 0, xin |-> NoXorIn, ret |-> <<>>, panic |-> FALSE,
     a |-> 0, i |-> 0, ph |-> 0, lane |-> <<>>, st |-> NoStores]

VARIABLES
    input,      \* the bytes: Sum256's argument under SpecSum, the Hasher's stream under Spec
    want,       \* what Sum256(data) returned, NoDigest before the call
    hasher,     \* the Hasher h of Spec; under SpecRace the Hasher before the calls
    pos,        \* the bytes of data written to h since it was constructed or Reset
    nwrites,    \* the non-empty chunks written to h
    got,        \* what h.Sum256() returned, NoDigest when h was written or Reset since
    sumsBefore, \* h.Sum256() was called on this stream before the latest Write
    fresh,      \* <<f>>: a Hasher constructed when h was last Reset, given h's calls since
    gotFresh,   \* what f.Sum256() returned
    resets,     \* the Reset calls
    twin,       \* <<g>> under SpecTwin: a Hasher given h's calls, like h at first but for buf
    gotTwin,    \* what g.Sum256() returned
    panicked,   \* a call panicked
    call,       \* call[t]: the index in ParCalls of the call thread t is at
    pc,         \* pc[t]: where in that call thread t is
    hs,         \* hs[t]: the Hasher of thread t
    local,      \* local[i]: the `state` array of the call that works on LocalOf(t) = i
    rem,        \* rem[t]: the slice `data` or `p` of the call, what is left to absorb
    out,        \* out[t]: the digests thread t's calls returned, in order
    useSHA3,    \* the arm64 build's package variable useSHA3
    variants,   \* the variants of the permutation keccakF1600 has dispatched to
    shared,     \* the Hasher the callers of SpecStmt and SpecRace call
    todo,       \* todo[c]: the calls caller c has yet to make
    frame,      \* frame[c]: the activation of caller c's call, see IdleFrame
    overlap     \* a call began while another caller's call was running

seqVars ==
    <<input, want, hasher, pos, nwrites, got, sumsBefore, fresh, gotFresh, resets, twin, gotTwin,
      panicked>>
parVars == <<call, pc, hs, local, rem, out>>
stmtVars == <<useSHA3, variants, shared, todo, frame, overlap>>
vars == <<seqVars, parVars, stmtVars>>

InitHasher ==
    /\ hasher = ZeroHasher
    /\ pos = 0
    /\ nwrites = 0
    /\ got = NoDigest
    /\ sumsBefore = FALSE
    /\ fresh = <<>>
    /\ gotFresh = NoDigest
    /\ resets = 0
    /\ twin = <<>>
    /\ gotTwin = NoDigest
    /\ panicked = FALSE

\* No caller, and the flag of a build that is not arm64/darwin.
InitIdle ==
    /\ useSHA3 = FALSE
    /\ variants = {}
    /\ shared = ZeroHasher
    /\ todo = [c \in Callers |-> <<>>]
    /\ frame = [c \in Callers |-> IdleFrame]
    /\ overlap = FALSE

InitPar ==
    /\ call = [t \in Threads |-> 1]
    /\ pc = [t \in Threads |-> "start"]
    /\ hs = [t \in Threads |-> ZeroHasher]
    /\ local = [t \in Threads |-> Zero200]
    /\ rem = [t \in Threads |-> <<>>]
    /\ out = [t \in Threads |-> <<>>]

Init ==
    /\ input = Stream
    /\ want = NoDigest
    /\ InitHasher
    /\ InitPar
    /\ InitIdle

InitSum ==
    /\ input \in Inputs
    /\ want = NoDigest
    /\ InitHasher
    /\ InitPar
    /\ InitIdle

\* Sum256 returns r.
Sum256Returns(r) ==
    /\ want' = r.digest
    /\ panicked' = ~r.ok

\* want := Sum256(data)
CallSum256 ==
    /\ ~panicked
    /\ want = NoDigest
    /\ Sum256Returns(Sum256(input))
    /\ UNCHANGED <<input, hasher, pos, nwrites, got, sumsBefore, fresh, gotFresh, resets, twin,
                   gotTwin, parVars, stmtVars>>

\* data[pos : pos+n]
Chunk(n) == SubSeq(input, pos + 1, pos + n)

\* h.Write returns, r.h being the Hasher as it leaves it.
WriteReturns(r) ==
    /\ hasher' = r.h
    /\ panicked' = ~r.ok

\* h.Write(data[pos : pos+n])
CallWrite(n) ==
    /\ ~panicked
    /\ pos + n <= Len(input)
    /\ n > 0 => nwrites < MaxWrites
    /\ WriteReturns(Hasher_Write(hasher, Chunk(n)))
    /\ fresh' = IF fresh = <<>> THEN <<>> ELSE <<Hasher_Write(fresh[1], Chunk(n)).h>>
    /\ twin' = IF twin = <<>> THEN <<>> ELSE <<Hasher_Write(twin[1], Chunk(n)).h>>
    /\ gotTwin' = NoDigest
    /\ pos' = pos + n
    /\ nwrites' = IF n > 0 THEN nwrites + 1 ELSE nwrites
    /\ got' = NoDigest
    /\ gotFresh' = NoDigest
    /\ sumsBefore' = (sumsBefore \/ got # NoDigest)
    /\ UNCHANGED <<input, want, resets, parVars, stmtVars>>

\* h.Sum256() returns r.digest, r.h being the Hasher as it leaves it.
HasherSum256Returns(r) ==
    /\ got' = r.digest
    /\ hasher' = r.h
    /\ panicked' = ~r.ok

\* No second Hasher; g.Sum256() returns r.digest, r.h being g as it leaves it.
NoTwin == [digest |-> NoDigest, h |-> <<>>, ok |-> TRUE, perms |-> 0]
TwinSum256Returns(r) ==
    /\ twin' = IF twin = <<>> THEN <<>> ELSE <<r.h>>
    /\ gotTwin' = r.digest

\* got := h.Sum256()
CallHasherSum256 ==
    /\ ~panicked
    /\ HasherSum256Returns(Hasher_Sum256(hasher))
    /\ gotFresh' = IF fresh = <<>> THEN NoDigest ELSE Hasher_Sum256(fresh[1]).digest
    /\ TwinSum256Returns(IF twin = <<>> THEN NoTwin ELSE Hasher_Sum256(twin[1]))
    /\ UNCHANGED <<input, want, pos, nwrites, sumsBefore, fresh, resets, parVars, stmtVars>>

\* h.Reset()
CallReset ==
    /\ ~panicked
    /\ resets < MaxResets
    /\ hasher' = Hasher_Reset(hasher)
    /\ fresh' = <<ZeroHasher>>
    /\ twin' = IF twin = <<>> THEN <<>> ELSE <<Hasher_Reset(twin[1])>>
    /\ gotTwin' = NoDigest
    /\ pos' = 0
    /\ got' = NoDigest
    /\ gotFresh' = NoDigest
    /\ sumsBefore' = FALSE
    /\ resets' = resets + 1
    /\ UNCHANGED <<input, want, nwrites, panicked, parVars, stmtVars>>

Next ==
    \/ \E n \in ChunkLens : CallWrite(n)
    \/ CallHasherSum256
    \/ CallReset

Spec == Init /\ [][Next]_vars

NextSum == CallSum256

SpecSum == InitSum /\ [][NextSum]_vars

\* The stream of SpecTwin, a block and 38 bytes, and its chunk lengths: a whole
\* block goes past the buffer when nothing is pending.
TwinStream == Data(rate + 38)
TwinLens == {0, 1, 37, rate}

\* Two Hashers that were Reset, one of them with a buffer of stale bytes.
InitTwin ==
    /\ input = TwinStream
    /\ want = NoDigest
    /\ hasher = ZeroHasher
    /\ pos = 0
    /\ nwrites = 0
    /\ got = NoDigest
    /\ sumsBefore = FALSE
    /\ fresh = <<>>
    /\ gotFresh = NoDigest
    /\ resets = 0
    /\ twin = <<StaleHasher>>
    /\ gotTwin = NoDigest
    /\ panicked = FALSE
    /\ InitPar
    /\ InitIdle

NextTwin ==
    \/ \E n \in TwinLens : CallWrite(n)
    \/ CallHasherSum256
    \/ CallReset

SpecTwin == InitTwin /\ [][NextTwin]_vars

\* The call thread t is at.
Op(t) == IF call[t] <= Len(ParCalls) THEN ParCalls[call[t]] ELSE "done"

\* Where thread t goes after a step: on, or nowhere after a panic.
Goto(t, ok, to) == [pc EXCEPT ![t] = IF ok THEN to ELSE "panic"]

\* Sum256(data): var state [200]byte
ParSum256Enter(t) ==
    /\ Op(t) = "Sum256" /\ pc[t] = "start"
    /\ local' = [local EXCEPT ![LocalOf(t)] = Zero200]
    /\ rem' = [rem EXCEPT ![t] = ParData(t)]
    /\ pc' = Goto(t, TRUE, "loop")
    /\ UNCHANGED <<call, hs, out, seqVars, stmtVars>>

\* Sum256: one turn of the loop
ParSum256Block(t) ==
    /\ Op(t) = "Sum256" /\ pc[t] = "loop" /\ Len(rem[t]) >= rate
    /\ LET b == Sum256Block(local[LocalOf(t)], rem[t])
       IN /\ local' = [local EXCEPT ![LocalOf(t)] = b.state]
          /\ rem' = [rem EXCEPT ![t] = b.data]
          /\ pc' = Goto(t, b.ok, "loop")
    /\ UNCHANGED <<call, hs, out, seqVars, stmtVars>>

\* Sum256: the tail, the padding, the last permutation and the return
ParSum256Return(t) ==
    /\ Op(t) = "Sum256" /\ pc[t] = "loop" /\ ~(Len(rem[t]) >= rate)
    /\ LET f == Sum256Tail(local[LocalOf(t)], rem[t])
       IN /\ out' = [out EXCEPT ![t] = Append(@, f.digest)]
          /\ pc' = Goto(t, f.ok, "start")
    /\ call' = [call EXCEPT ![t] = @ + 1]
    /\ UNCHANGED <<hs, local, rem, seqVars, stmtVars>>

\* h.Write(p): the top-up of the buffer
ParWriteTopUp(t) ==
    /\ Op(t) = "Write" /\ pc[t] = "start"
    /\ LET r == WriteTopUp(hs[t], ParChunk(t, call[t]))
       IN /\ hs' = [hs EXCEPT ![t] = r.h]
          /\ rem' = [rem EXCEPT ![t] = r.p]
          /\ pc' = Goto(t, r.ok, "loop")
    /\ UNCHANGED <<call, local, out, seqVars, stmtVars>>

\* h.Write: one turn of the loop
ParWriteBlock(t) ==
    /\ Op(t) = "Write" /\ pc[t] = "loop" /\ Len(rem[t]) >= rate
    /\ LET b == WriteBlock(hs[t], rem[t])
       IN /\ hs' = [hs EXCEPT ![t] = b.h]
          /\ rem' = [rem EXCEPT ![t] = b.p]
          /\ pc' = Goto(t, b.ok, "loop")
    /\ UNCHANGED <<call, local, out, seqVars, stmtVars>>

\* h.Write: the leftover and the return
ParWriteReturn(t) ==
    /\ Op(t) = "Write" /\ pc[t] = "loop" /\ ~(Len(rem[t]) >= rate)
    /\ hs' = [hs EXCEPT ![t] = WriteLeftover(hs[t], rem[t])]
    /\ pc' = Goto(t, TRUE, "start")
    /\ call' = [call EXCEPT ![t] = @ + 1]
    /\ UNCHANGED <<local, rem, out, seqVars, stmtVars>>

\* h.Sum256(): state := h.state
ParHasherSum256Copy(t) ==
    /\ Op(t) = "Hasher.Sum256" /\ pc[t] = "start"
    /\ local' = [local EXCEPT ![LocalOf(t)] = hs[t].state]
    /\ pc' = Goto(t, TRUE, "tail")
    /\ UNCHANGED <<call, hs, rem, out, seqVars, stmtVars>>

\* h.Sum256(): the pending bytes, the padding, the permutation and the return
ParHasherSum256Return(t) ==
    /\ Op(t) = "Hasher.Sum256" /\ pc[t] = "tail"
    /\ LET f == Hasher_Sum256Tail(local[LocalOf(t)], hs[t])
       IN /\ out' = [out EXCEPT ![t] = Append(@, f.digest)]
          /\ pc' = Goto(t, f.ok, "start")
    /\ call' = [call EXCEPT ![t] = @ + 1]
    /\ UNCHANGED <<hs, local, rem, seqVars, stmtVars>>

NextPar ==
    \E t \in Threads :
        \/ ParSum256Enter(t)
        \/ ParSum256Block(t)
        \/ ParSum256Return(t)
        \/ ParWriteTopUp(t)
        \/ ParWriteBlock(t)
        \/ ParWriteReturn(t)
        \/ ParHasherSum256Copy(t)
        \/ ParHasherSum256Return(t)

SpecPar == Init /\ [][NextPar]_vars

(***************************************************************************)
(* The statements of keccak.go, one at a step (SpecStmt): with one caller  *)
(* nothing falls between the loads and stores of a statement.  A frame's   *)
(* line is the line of keccak.go the call executes next; a statement that  *)
(* only cuts or tests the call's own slice (p = p[n:], the tests of the    *)
(* loops) is taken with the statement before it.                           *)
(***************************************************************************)
\* The permutation's two variants of the arm64 build, whose bodies are assembly and
\* generic Go: both are Keccak-f[1600].
keccakF1600NEON(a) == keccakF1600(a)
keccakF1600Generic(a) == keccakF1600(a)

\* A dispatcher that gives up the NEON variant once it has used it.
keccakF1600_arm64_Once(flag, a) ==
    [a |-> IF flag THEN keccakF1600NEON(a) ELSE keccakF1600Generic(a),
     variant |-> IF flag THEN "NEON" ELSE "Generic",
     useSHA3 |-> FALSE]

\* keccakF1600 of the arm64 build, where flag is useSHA3: the array as the variant
\* leaves it, the variant it dispatched to, and useSHA3 as the call leaves it.
keccakF1600_arm64(flag, a) ==
    [a |-> IF flag THEN keccakF1600NEON(a) ELSE keccakF1600Generic(a),
     variant |-> IF flag THEN "NEON" ELSE "Generic",
     useSHA3 |-> flag]

\* A call of xorIn(&state, data): the array before and after, and the data.
XorInCall(state, data) ==
    [before |-> state, data |-> data,
     after |-> xorIn(state, data).state, ok |-> xorIn(state, data).ok]

\* The lines a call begins at and has returned at.
FirstLine(op) ==
    CASE op = "Sum256" -> 22 [] op = "Write" -> 58 [] op = "Hasher.Sum256" -> 83
      [] op = "Reset" -> 52
ReturnLines == {41, 54, 78, 89}

\* The activation of the call c (its op and arg) on the Hasher h.
Enter(c, h) ==
    [IdleFrame EXCEPT !.op = c.op, !.line = FirstLine(c.op), !.arg = c.arg,
                      !.entry = h, !.p = c.arg]

\* Caller c is at `line` of `op`; caller c is inside a call.
At(c, op, line) == frame[c].op = op /\ frame[c].line = line /\ ~frame[c].panic
Running(c) == frame[c].op # "idle" /\ frame[c].line \notin ReturnLines /\ ~frame[c].panic

\* Caller c's frame becomes fr; a statement that writes nothing but the frame, and
\* one that writes the Hasher too; the dispatch k is recorded.
Goes(c, fr) == frame' = [frame EXCEPT ![c] = fr]
LocalStep == UNCHANGED <<seqVars, parVars, todo, overlap, shared, useSHA3, variants>>
HasherStep == UNCHANGED <<seqVars, parVars, todo, overlap, useSHA3, variants>>
Dispatched(k) == variants' = variants \cup {k.variant} /\ useSHA3' = k.useSHA3

\* Caller c makes its next call.
StmtCall(c) ==
    /\ todo[c] # <<>>
    /\ ~frame[c].panic
    /\ frame[c].op = "idle" \/ frame[c].line \in ReturnLines
    /\ Goes(c, Enter(Head(todo[c]), shared))
    /\ todo' = [todo EXCEPT ![c] = Tail(@)]
    /\ overlap' = (overlap \/ \E u \in Callers \ {c} : Running(u))
    /\ UNCHANGED <<seqVars, parVars, shared, useSHA3, variants>>

\* for len(data) > rate: a loop that leaves a whole block to the tail.
Sum256LoopLine_Late(data) == IF Len(data) > rate THEN 26 ELSE 33

\* for len(data) >= rate: the line Sum256 goes to with `data` left.
Sum256LoopLine(data) == IF Len(data) >= rate THEN 26 ELSE 33

\* Sum256, line 22: var state [200]byte
StmtS22(c) ==
    /\ At(c, "Sum256", 22)
    /\ Goes(c, [frame[c] EXCEPT !.state = Zero200, !.line = Sum256LoopLine(frame[c].p)])
    /\ LocalStep

\* Sum256, line 26: xorIn(&state, data[:rate])
StmtS26(c) ==
    /\ At(c, "Sum256", 26)
    /\ LET x == XorInCall(frame[c].state, SubSeq(frame[c].p, 1, rate))
       IN Goes(c, [frame[c] EXCEPT !.state = x.after, !.xin = x, !.panic = ~x.ok,
                                   !.line = 27])
    /\ LocalStep

\* Sum256, lines 27 and 28: keccakF1600(&state); data = data[rate:]
StmtS27(c) ==
    /\ At(c, "Sum256", 27)
    /\ LET k == keccakF1600_arm64(useSHA3, frame[c].state)
       IN /\ Goes(c, [frame[c] EXCEPT
                         !.state = k.a, !.perms = @ + 1,
                         !.p = SubSeq(@, rate + 1, Len(@)),
                         !.line = Sum256LoopLine(SubSeq(frame[c].p, rate + 1, Len(frame[c].p)))])
          /\ Dispatched(k)
    /\ UNCHANGED <<seqVars, parVars, todo, overlap, shared>>

\* Sum256 that pads the last block absorbed when nothing is left: no tail, no
\* block of padding alone.
StmtS33_InPlace(c) ==
    /\ At(c, "Sum256", 33)
    /\ LET x == XorInCall(frame[c].state, frame[c].p)
       IN Goes(c, [frame[c] EXCEPT
                      !.state = x.after, !.xin = x, !.panic = ~x.ok,
                      !.line = IF Len(frame[c].p) = 0 /\ frame[c].perms > 0 THEN 40 ELSE 34])
    /\ LocalStep

\* Sum256, line 33: xorIn(&state, data)
StmtS33(c) ==
    /\ At(c, "Sum256", 33)
    /\ LET x == XorInCall(frame[c].state, frame[c].p)
       IN Goes(c, [frame[c] EXCEPT !.state = x.after, !.xin = x, !.panic = ~x.ok,
                                   !.line = 34])
    /\ LocalStep

\* Sum256, line 34: state[len(data)] ^= 0x01
StmtS34(c) ==
    /\ At(c, "Sum256", 34)
    /\ IF Len(frame[c].p) < 200
       THEN Goes(c, [frame[c] EXCEPT !.state = PadDomain(@, Len(frame[c].p)), !.line = 36])
       ELSE Goes(c, [frame[c] EXCEPT !.panic = TRUE])
    /\ LocalStep

\* Sum256, line 36: state[rate-1] ^= 0x80
StmtS36(c) ==
    /\ At(c, "Sum256", 36)
    /\ Goes(c, [frame[c] EXCEPT !.state = PadEnd(@), !.line = 37])
    /\ LocalStep

\* Sum256, line 37: keccakF1600(&state)
StmtS37(c) ==
    /\ At(c, "Sum256", 37)
    /\ LET k == keccakF1600_arm64(useSHA3, frame[c].state)
       IN /\ Goes(c, [frame[c] EXCEPT !.state = k.a, !.perms = @ + 1, !.line = 40])
          /\ Dispatched(k)
    /\ UNCHANGED <<seqVars, parVars, todo, overlap, shared>>

\* Sum256, line 40: return [32]byte(state[:32])
StmtS40(c) ==
    /\ At(c, "Sum256", 40)
    /\ Goes(c, [frame[c] EXCEPT !.ret = SubSeq(frame[c].state, 1, 32), !.line = 41])
    /\ LocalStep

\* Write's end without the test of line 75: h.absorbed = copy(h.buf[:], p) also when
\* nothing is left.
WriteLoopLine_NoTest(p) == IF Len(p) >= rate THEN 70 ELSE 76

\* for len(p) >= rate, and if len(p) > 0 after it: the line Write goes to with p left.
WriteLoopLine(p) == IF Len(p) >= rate THEN 70 ELSE IF Len(p) > 0 THEN 76 ELSE 78

\* Write, line 58: if h.absorbed > 0
StmtW58(c) ==
    /\ At(c, "Write", 58)
    /\ Goes(c, [frame[c] EXCEPT
                   !.line = IF shared.absorbed > 0 THEN 59 ELSE WriteLoopLine(frame[c].p)])
    /\ LocalStep

\* Write, line 59: n := copy(h.buf[h.absorbed:rate], p)
StmtW59(c) ==
    /\ At(c, "Write", 59)
    /\ IF shared.absorbed <= rate
       THEN LET y == copy(SubSeq(shared.buf, shared.absorbed + 1, rate), frame[c].p)
            IN /\ shared' = [shared EXCEPT !.buf = SubSeq(@, 1, shared.absorbed) \o y.dst]
               /\ Goes(c, [frame[c] EXCEPT !.n = y.n, !.line = 60])
       ELSE Goes(c, [frame[c] EXCEPT !.panic = TRUE]) /\ UNCHANGED shared
    /\ HasherStep

\* Write, lines 60 and 61: h.absorbed += n; p = p[n:]
StmtW60(c) ==
    /\ At(c, "Write", 60)
    /\ shared' = [shared EXCEPT !.absorbed = @ + frame[c].n]
    /\ Goes(c, [frame[c] EXCEPT !.p = SubSeq(@, frame[c].n + 1, Len(@)), !.line = 62])
    /\ HasherStep

\* Write, line 62: if h.absorbed == rate
StmtW62(c) ==
    /\ At(c, "Write", 62)
    /\ Goes(c, [frame[c] EXCEPT
                   !.line = IF shared.absorbed = rate THEN 63 ELSE WriteLoopLine(frame[c].p)])
    /\ LocalStep

\* Write, line 63: xorIn(&h.state, h.buf[:])
StmtW63(c) ==
    /\ At(c, "Write", 63)
    /\ LET x == XorInCall(shared.state, shared.buf)
       IN /\ shared' = [shared EXCEPT !.state = x.after]
          /\ Goes(c, [frame[c] EXCEPT !.xin = x, !.panic = ~x.ok, !.line = 64])
    /\ HasherStep

\* Write, line 64: keccakF1600(&h.state)
StmtW64(c) ==
    /\ At(c, "Write", 64)
    /\ LET k == keccakF1600_arm64(useSHA3, shared.state)
       IN /\ shared' = [shared EXCEPT !.state = k.a]
          /\ Dispatched(k)
    /\ Goes(c, [frame[c] EXCEPT !.perms = @ + 1, !.line = 65])
    /\ UNCHANGED <<seqVars, parVars, todo, overlap>>

\* Write, line 65: h.absorbed = 0
StmtW65(c) ==
    /\ At(c, "Write", 65)
    /\ shared' = [shared EXCEPT !.absorbed = 0]
    /\ Goes(c, [frame[c] EXCEPT !.line = WriteLoopLine(frame[c].p)])
    /\ HasherStep

\* Line 70 through the buffer: copy(h.buf[:], p[:rate]); xorIn(&h.state, h.buf[:])
StmtW70_ViaBuf(c) ==
    /\ At(c, "Write", 70)
    /\ LET x == XorInCall(shared.state, SubSeq(frame[c].p, 1, rate))
       IN /\ shared' = [shared EXCEPT !.state = x.after, !.buf = SubSeq(frame[c].p, 1, rate)]
          /\ Goes(c, [frame[c] EXCEPT !.xin = x, !.panic = ~x.ok, !.line = 71])
    /\ HasherStep

\* Write, line 70: xorIn(&h.state, p[:rate])
StmtW70(c) ==
    /\ At(c, "Write", 70)
    /\ LET x == XorInCall(shared.state, SubSeq(frame[c].p, 1, rate))
       IN /\ shared' = [shared EXCEPT !.state = x.after]
          /\ Goes(c, [frame[c] EXCEPT !.xin = x, !.panic = ~x.ok, !.line = 71])
    /\ HasherStep

\* Write, lines 71 and 72: keccakF1600(&h.state); p = p[rate:]
StmtW71(c) ==
    /\ At(c, "Write", 71)
    /\ LET k == keccakF1600_arm64(useSHA3, shared.state)
       IN /\ shared' = [shared EXCEPT !.state = k.a]
          /\ Dispatched(k)
    /\ Goes(c, [frame[c] EXCEPT
                   !.perms = @ + 1, !.p = SubSeq(@, rate + 1, Len(@)),
                   !.line = WriteLoopLine(SubSeq(frame[c].p, rate + 1, Len(frame[c].p)))])
    /\ UNCHANGED <<seqVars, parVars, todo, overlap>>

\* Write, line 76: h.absorbed = copy(h.buf[:], p)
StmtW76(c) ==
    /\ At(c, "Write", 76)
    /\ LET y == copy(shared.buf, frame[c].p)
       IN shared' = [shared EXCEPT !.buf = y.dst, !.absorbed = y.n]
    /\ Goes(c, [frame[c] EXCEPT !.line = 78])
    /\ HasherStep

\* Hasher.Sum256, line 83: state := h.state
StmtH83(c) ==
    /\ At(c, "Hasher.Sum256", 83)
    /\ Goes(c, [frame[c] EXCEPT !.state = shared.state, !.line = 84])
    /\ LocalStep

\* Hasher.Sum256, line 84: xorIn(&state, h.buf[:h.absorbed])
StmtH84(c) ==
    /\ At(c, "Hasher.Sum256", 84)
    /\ IF 0 <= shared.absorbed /\ shared.absorbed <= rate
       THEN LET x == XorInCall(frame[c].state, SubSeq(shared.buf, 1, shared.absorbed))
            IN Goes(c, [frame[c] EXCEPT !.state = x.after, !.xin = x, !.panic = ~x.ok,
                                        !.line = 85])
       ELSE Goes(c, [frame[c] EXCEPT !.panic = TRUE])
    /\ LocalStep

\* Hasher.Sum256, line 85: state[h.absorbed] ^= 0x01
StmtH85(c) ==
    /\ At(c, "Hasher.Sum256", 85)
    /\ IF 0 <= shared.absorbed /\ shared.absorbed < 200
       THEN Goes(c, [frame[c] EXCEPT !.state = PadDomain(@, shared.absorbed), !.line = 86])
       ELSE Goes(c, [frame[c] EXCEPT !.panic = TRUE])
    /\ LocalStep

\* Hasher.Sum256, line 86: state[rate-1] ^= 0x80
StmtH86(c) ==
    /\ At(c, "Hasher.Sum256", 86)
    /\ Goes(c, [frame[c] EXCEPT !.state = PadEnd(@), !.line = 87])
    /\ LocalStep

\* Hasher.Sum256, line 87: keccakF1600(&state)
StmtH87(c) ==
    /\ At(c, "Hasher.Sum256", 87)
    /\ LET k == keccakF1600_arm64(useSHA3, frame[c].state)
       IN /\ Goes(c, [frame[c] EXCEPT !.state = k.a, !.perms = @ + 1, !.line = 88])
          /\ Dispatched(k)
    /\ UNCHANGED <<seqVars, parVars, todo, overlap, shared>>

\* Hasher.Sum256, line 88: return [32]byte(state[:32])
StmtH88(c) ==
    /\ At(c, "Hasher.Sum256", 88)
    /\ Goes(c, [frame[c] EXCEPT !.ret = SubSeq(frame[c].state, 1, 32), !.line = 89])
    /\ LocalStep

\* Reset, line 52: h.state = [200]byte{}
StmtR52(c) ==
    /\ At(c, "Reset", 52)
    /\ shared' = [shared EXCEPT !.state = Zero200]
    /\ Goes(c, [frame[c] EXCEPT !.line = 53])
    /\ HasherStep

\* Reset, line 53: h.absorbed = 0
StmtR53(c) ==
    /\ At(c, "Reset", 53)
    /\ shared' = [shared EXCEPT !.absorbed = 0]
    /\ Goes(c, [frame[c] EXCEPT !.line = 54])
    /\ HasherStep

\* A statement of Write.
StmtWrite(c) ==
    \/ StmtW58(c) \/ StmtW59(c) \/ StmtW60(c) \/ StmtW62(c) \/ StmtW63(c)
    \/ StmtW64(c) \/ StmtW65(c) \/ StmtW70(c) \/ StmtW71(c) \/ StmtW76(c)

\* The first caller gets the script for the input, cut at one of its places; the
\* flag is as package initialization set it, true on darwin.
InitStmt ==
    /\ input \in StmtInputs
    /\ want = NoDigest
    /\ InitHasher
    /\ InitPar
    /\ useSHA3 \in BOOLEAN
    /\ variants = {}
    /\ shared = ZeroHasher
    /\ \E s \in Splits(input) : todo = [c \in Callers |-> IF c = 1 THEN Script(input, s) ELSE <<>>]
    /\ frame = [c \in Callers |-> IdleFrame]
    /\ overlap = FALSE

NextStmt ==
    \E c \in Callers :
        \/ StmtCall(c)
        \/ StmtS22(c) \/ StmtS26(c) \/ StmtS27(c) \/ StmtS33(c) \/ StmtS34(c)
        \/ StmtS36(c) \/ StmtS37(c) \/ StmtS40(c)
        \/ StmtWrite(c)
        \/ StmtH83(c) \/ StmtH84(c) \/ StmtH85(c) \/ StmtH86(c) \/ StmtH87(c)
        \/ StmtH88(c)
        \/ StmtR52(c) \/ StmtR53(c)

SpecStmt == InitStmt /\ [][NextStmt]_vars

\* The arrays xorIn is called on under SpecXor: all zero, and permuted.
XorStates == {Zero200, keccakF1600(Zero200)}

\* xorIn(&state, data), lines 93 to 104, as one step.
StmtXorIn(c) ==
    /\ At(c, "xorIn", 93)
    /\ LET x == XorInCall(frame[c].state, frame[c].p)
       IN Goes(c, [frame[c] EXCEPT !.state = x.after, !.xin = x, !.panic = ~x.ok,
                                   !.line = 104])
    /\ LocalStep

\* A caller is about to call xorIn on an array and on data of up to rate bytes.
InitXor ==
    /\ input \in {Data(n) : n \in 0..rate}
    /\ want = NoDigest
    /\ InitHasher
    /\ InitPar
    /\ useSHA3 = FALSE
    /\ variants = {}
    /\ shared = ZeroHasher
    /\ todo = [c \in Callers |-> <<>>]
    /\ \E s \in XorStates :
          frame = [c \in Callers |->
                      IF c = 1 THEN [IdleFrame EXCEPT !.op = "xorIn", !.line = 93, !.arg = input,
                                                      !.p = input, !.state = s]
                      ELSE IdleFrame]
    /\ overlap = FALSE

NextXor == \E c \in Callers : StmtXorIn(c)

SpecXor == InitXor /\ [][NextXor]_vars

(***************************************************************************)
(* Calls on a Hasher that another call is using (SpecRace).  Every load    *)
(* and store of the Hasher is a step of its own: each load and store of    *)
(* h.absorbed, each byte copy stores in h.buf, each byte le64 loads from   *)
(* h.buf, each lane of h.state that xorIn loads and stores, that Reset     *)
(* clears, that Hasher.Sum256 copies and that the permutation loads and    *)
(* stores.  What a call computes on its own registers and arrays is taken  *)
(* with the load before it.  Either caller may take any step.  The calls   *)
(* share no lock and no atomic operation, so nothing orders the accesses   *)
(* of one with those of the other: a load of h.absorbed or of a byte of    *)
(* h.buf by a call gives what the call itself stored there last, or, if it *)
(* has stored nothing there, what was there before the calls; or any value *)
(* that a call running at once with it has stored there so far.  The body  *)
(* of the permutation is not in keccak.go: it is taken to load the 25      *)
(* lanes of the array, run its rounds and store the 25 lanes.  The cases   *)
(* are those where one call only reads or writes h.state                   *)
(* (RaceStateApart).                                                       *)
(***************************************************************************)
RaceStep == UNCHANGED <<seqVars, parVars, todo, overlap>>
NoDispatch == UNCHANGED <<useSHA3, variants>>

\* What a location of the Hasher held before the call of caller c and every call
\* running at once with it.
RaceBase(c) == IF overlap THEN hasher ELSE frame[c].entry

\* The values a load by a call may give: mine and theirs are the values the call and
\* the other caller's call have stored in the location, in order, and base is what
\* it held before.
Observed(mine, theirs, base) ==
    (IF overlap THEN {theirs[j] : j \in 1..Len(theirs)} ELSE {})
        \cup {IF mine # <<>> THEN mine[Len(mine)] ELSE base}

\* The values a load of h.absorbed, and of h.buf[j] (j from 0), by caller c may give;
\* the values the call of frame fr has stored in h.buf[j], in order.
AbsorbedRead(c) ==
    Observed(frame[c].st.absorbed, frame[3 - c].st.absorbed, RaceBase(c).absorbed)
BufStores(fr, j) ==
    LET at == SelectSeq(fr.st.buf, LAMBDA e : e[1] = j) IN [k \in 1..Len(at) |-> at[k][2]]
BufRead(c, j) ==
    Observed(BufStores(frame[c], j), BufStores(frame[3 - c], j), RaceBase(c).buf[j + 1])

\* h.absorbed += n as a store of n alone.
AddAbsorbed_Store(a, n) == n

\* h.absorbed += n: the value stored, a being the value loaded.
AddAbsorbed(a, n) == a + n

\* dst[at + i] = src[i], one of the stores of copy(dst[at:], src); at and i from 0.
CopyByte(dst, at, src, i) == [dst EXCEPT ![at + i + 1] = src[i + 1]]

\* The frame fr once its call has stored v in h.absorbed, and in h.buf[j] (j from 0).
StoredAbsorbed(fr, v) == [fr EXCEPT !.st.absorbed = Append(@, v)]
StoredBuf(fr, j, v) == [fr EXCEPT !.st.buf = Append(@, <<j, v>>)]

\* One turn of xorIn's loop on h.state, `stateU64[i] ^= le64(data[8*i:])`.  Where data
\* is h.buf (fromBuf), le64 loads its 8 bytes one at a step; then the lane of the
\* state is loaded and XORed, and then stored.  After the last of the rate / 8
\* lanes the call is at `next`.
XorInLane(c, fromBuf, data, next) ==
    IF fromBuf /\ frame[c].ph = 0 /\ Len(frame[c].lane) < 8
    THEN /\ \E b \in BufRead(c, 8 * frame[c].i + Len(frame[c].lane)) :
                Goes(c, [frame[c] EXCEPT !.lane = Append(@, b)])
         /\ UNCHANGED shared
    ELSE IF frame[c].ph = 0
    THEN /\ Goes(c, [frame[c] EXCEPT
                        !.lane = Xor64(LoadU64(shared.state, frame[c].i),
                                       le64(IF fromBuf THEN @
                                            ELSE SubSeq(data, 8 * frame[c].i + 1, Len(data)))),
                        !.ph = 1])
         /\ UNCHANGED shared
    ELSE /\ shared' = [shared EXCEPT !.state = StoreU64(@, frame[c].i, frame[c].lane)]
         /\ Goes(c, [frame[c] EXCEPT
                        !.ph = 0, !.lane = <<>>,
                        !.i = IF @ + 1 < rate \div 8 THEN @ + 1 ELSE 0,
                        !.line = IF frame[c].i + 1 < rate \div 8 THEN @ ELSE next])

\* The call's array with lane i loaded from h.state.
LoadLane(c) == StoreU64(frame[c].state, frame[c].i, LoadU64(shared.state, frame[c].i))

\* keccakF1600(&h.state): the 25 lanes of h.state are loaded one at a step, the
\* rounds run on what was loaded (k is their result), and the 25 lanes are stored
\* one at a step; the call has then run one more permutation, and rest is what it
\* has left of its chunk.
KeccakLoaded(c, k) ==
    /\ Goes(c, [frame[c] EXCEPT !.state = k.a, !.i = 0, !.ph = 1])
    /\ Dispatched(k)
KeccakCall(c, rest, next) ==
    IF frame[c].ph = 0
    THEN /\ UNCHANGED shared
         /\ IF frame[c].i < 24
            THEN Goes(c, [frame[c] EXCEPT !.state = LoadLane(c), !.i = @ + 1]) /\ NoDispatch
            ELSE KeccakLoaded(c, keccakF1600_arm64(useSHA3, LoadLane(c)))
    ELSE /\ shared' = [shared EXCEPT
                          !.state = StoreU64(@, frame[c].i, LoadU64(frame[c].state, frame[c].i))]
         /\ NoDispatch
         /\ IF frame[c].i < 24
            THEN Goes(c, [frame[c] EXCEPT !.i = @ + 1])
            ELSE Goes(c, [frame[c] EXCEPT !.state = Zero200, !.i = 0, !.ph = 0,
                                          !.perms = @ + 1, !.p = rest, !.line = next])

\* Write, lines 58 to 61:
\*     if h.absorbed > 0 {  n := copy(h.buf[h.absorbed:rate], p)
\*     h.absorbed += n;  p = p[n:]
RaceTopUp(c) ==
    /\ frame[c].op = "Write" /\ ~frame[c].panic
    /\ frame[c].line \in {58, 59, 60}
    /\ \E a \in AbsorbedRead(c) :
          CASE frame[c].line = 58 ->
                   /\ Goes(c, [frame[c] EXCEPT
                                  !.a = a,
                                  !.line = IF a > 0 THEN 59 ELSE WriteLoopLine(frame[c].p)])
                   /\ UNCHANGED shared
            [] frame[c].line = 59 /\ frame[c].ph = 0 ->
                   /\ IF 0 <= a /\ a <= rate
                      THEN LET n == copy(SubSeq(shared.buf, a + 1, rate), frame[c].p).n
                           IN Goes(c, [frame[c] EXCEPT
                                          !.a = a, !.n = n, !.i = 0,
                                          !.ph = IF n > 0 THEN 1 ELSE 0,
                                          !.line = IF n > 0 THEN 59 ELSE 60])
                      ELSE Goes(c, [frame[c] EXCEPT !.panic = TRUE])
                   /\ UNCHANGED shared
            [] frame[c].line = 59 /\ frame[c].ph = 1 ->
                   /\ shared' = [shared EXCEPT
                                    !.buf = CopyByte(@, frame[c].a, frame[c].p, frame[c].i)]
                   /\ Goes(c, [StoredBuf(frame[c], frame[c].a + frame[c].i,
                                          frame[c].p[frame[c].i + 1]) EXCEPT
                                  !.i = IF @ + 1 < frame[c].n THEN @ + 1 ELSE 0,
                                  !.ph = IF frame[c].i + 1 < frame[c].n THEN 1 ELSE 0,
                                  !.line = IF frame[c].i + 1 < frame[c].n THEN 59 ELSE 60])
            [] frame[c].line = 60 /\ frame[c].ph = 0 ->
                   /\ Goes(c, [frame[c] EXCEPT !.a = a, !.ph = 1])
                   /\ UNCHANGED shared
            [] frame[c].line = 60 /\ frame[c].ph = 1 ->
                   /\ shared' = [shared EXCEPT
                                    !.absorbed = AddAbsorbed(frame[c].a, frame[c].n)]
                   /\ Goes(c, [StoredAbsorbed(frame[c],
                                               AddAbsorbed(frame[c].a, frame[c].n)) EXCEPT
                                  !.a = AddAbsorbed(frame[c].a, frame[c].n),
                                  !.p = SubSeq(@, frame[c].n + 1, Len(@)),
                                  !.ph = 0, !.line = 62])
    /\ NoDispatch
    /\ RaceStep

\* Write, lines 62 to 65:
\*     if h.absorbed == rate {  xorIn(&h.state, h.buf[:])
\*     keccakF1600(&h.state);  h.absorbed = 0
RaceAbsorb(c) ==
    /\ frame[c].op = "Write" /\ ~frame[c].panic
    /\ frame[c].line \in {62, 63, 64, 65}
    /\ CASE frame[c].line = 62 ->
                \E a \in AbsorbedRead(c) :
                    /\ Goes(c, [frame[c] EXCEPT
                                   !.a = a,
                                   !.line = IF a = rate THEN 63 ELSE WriteLoopLine(frame[c].p)])
                    /\ UNCHANGED shared
                    /\ NoDispatch
         [] frame[c].line = 63 ->
                XorInLane(c, TRUE, <<>>, 64) /\ NoDispatch
         [] frame[c].line = 64 ->
                KeccakCall(c, frame[c].p, 65)
         [] frame[c].line = 65 ->
                /\ shared' = [shared EXCEPT !.absorbed = 0]
                /\ Goes(c, [StoredAbsorbed(frame[c], 0) EXCEPT
                               !.a = 0, !.line = WriteLoopLine(frame[c].p)])
                /\ NoDispatch
    /\ RaceStep

\* Write, lines 69 to 73:
\*     for len(p) >= rate {  xorIn(&h.state, p[:rate])
\*     keccakF1600(&h.state);  p = p[rate:]
RaceBlock(c) ==
    /\ frame[c].op = "Write" /\ ~frame[c].panic
    /\ frame[c].line \in {70, 71}
    /\ IF frame[c].line = 70
       THEN XorInLane(c, FALSE, SubSeq(frame[c].p, 1, rate), 71) /\ NoDispatch
       ELSE KeccakCall(c, SubSeq(frame[c].p, rate + 1, Len(frame[c].p)),
                       WriteLoopLine(SubSeq(frame[c].p, rate + 1, Len(frame[c].p))))
    /\ RaceStep

\* Write, lines 75 to 77:  if len(p) > 0 {  h.absorbed = copy(h.buf[:], p)
RaceLeftover(c) ==
    /\ frame[c].op = "Write" /\ ~frame[c].panic
    /\ frame[c].line = 76
    /\ IF frame[c].ph = 0
       THEN /\ shared' = [shared EXCEPT !.buf = CopyByte(@, 0, frame[c].p, frame[c].i)]
            /\ Goes(c, [StoredBuf(frame[c], frame[c].i, frame[c].p[frame[c].i + 1]) EXCEPT
                           !.i = IF @ + 1 < copy(shared.buf, frame[c].p).n THEN @ + 1 ELSE 0,
                           !.n = copy(shared.buf, frame[c].p).n,
                           !.ph = IF frame[c].i + 1 < copy(shared.buf, frame[c].p).n
                                  THEN 0 ELSE 1])
       ELSE /\ shared' = [shared EXCEPT !.absorbed = frame[c].n]
            /\ Goes(c, [StoredAbsorbed(frame[c], frame[c].n) EXCEPT
                           !.a = frame[c].n, !.ph = 0, !.line = 78])
    /\ NoDispatch
    /\ RaceStep

\* Reset, lines 52 and 53:  h.state = [200]byte{}, a lane at a step;  h.absorbed = 0
RaceReset(c) ==
    /\ frame[c].op = "Reset" /\ ~frame[c].panic
    /\ frame[c].line \in {52, 53}
    /\ IF frame[c].line = 52
       THEN /\ shared' = [shared EXCEPT
                             !.state = StoreU64(@, frame[c].i, LoadU64(Zero200, frame[c].i))]
            /\ Goes(c, [frame[c] EXCEPT
                           !.i = IF @ < 24 THEN @ + 1 ELSE 0,
                           !.line = IF frame[c].i < 24 THEN 52 ELSE 53])
       ELSE /\ shared' = [shared EXCEPT !.absorbed = 0]
            /\ Goes(c, [StoredAbsorbed(frame[c], 0) EXCEPT !.line = 54])
    /\ NoDispatch
    /\ RaceStep

\* Hasher.Sum256 from its second read of h.absorbed, a being the value read and k
\* what the permutation gives on the call's array, padded:
\*     state[h.absorbed] ^= 0x01;  state[rate-1] ^= 0x80
\*     keccakF1600(&state);  return [32]byte(state[:32])
RaceSqueeze(c, a, k) ==
    IF 0 <= a /\ a < 200
    THEN /\ Goes(c, [frame[c] EXCEPT !.a = a, !.state = k.a, !.perms = @ + 1,
                                     !.ret = SubSeq(k.a, 1, 32), !.line = 89])
         /\ Dispatched(k)
    ELSE Goes(c, [frame[c] EXCEPT !.panic = TRUE]) /\ NoDispatch

\* Hasher.Sum256, lines 83 to 88:  state := h.state, a lane at a step;
\* xorIn(&state, h.buf[:h.absorbed]), a byte of h.buf at a step;  the padding, the
\* permutation and the squeeze, on the call's own array.
RaceSum256(c) ==
    /\ frame[c].op = "Hasher.Sum256" /\ ~frame[c].panic
    /\ frame[c].line \in {83, 84, 85}
    /\ UNCHANGED shared
    /\ CASE frame[c].line = 83 ->
                /\ Goes(c, [frame[c] EXCEPT
                               !.state = LoadLane(c),
                               !.i = IF @ < 24 THEN @ + 1 ELSE 0,
                               !.line = IF frame[c].i < 24 THEN 83 ELSE 84])
                /\ NoDispatch
         [] frame[c].line = 84 /\ frame[c].ph = 0 ->
                /\ \E a \in AbsorbedRead(c) :
                      IF 0 <= a /\ a <= rate
                      THEN Goes(c, [frame[c] EXCEPT
                                       !.a = a, !.n = a, !.i = 0,
                                       !.ph = IF a > 0 THEN 1 ELSE 0,
                                       !.line = IF a > 0 THEN 84 ELSE 85])
                      ELSE Goes(c, [frame[c] EXCEPT !.panic = TRUE])
                /\ NoDispatch
         [] frame[c].line = 84 /\ frame[c].ph = 1 ->
                /\ \E b \in BufRead(c, frame[c].i) :
                      Goes(c, [frame[c] EXCEPT
                                  !.state[frame[c].i + 1] = Xor8(@, b),
                                  !.i = IF @ + 1 < frame[c].n THEN @ + 1 ELSE 0,
                                  !.ph = IF frame[c].i + 1 < frame[c].n THEN 1 ELSE 0,
                                  !.line = IF frame[c].i + 1 < frame[c].n THEN 84 ELSE 85])
                /\ NoDispatch
         [] frame[c].line = 85 ->
                \E a \in AbsorbedRead(c) :
                    RaceSqueeze(c, a,
                                keccakF1600_arm64(useSHA3,
                                    IF 0 <= a /\ a < 200
                                    THEN PadEnd(PadDomain(frame[c].state, a))
                                    ELSE frame[c].state))
    /\ RaceStep

\* The Hasher has been fed some bytes of the stream, and each caller has at most one
\* call to make.
InitRace ==
    /\ \E r \in RaceCases :
          /\ input = SubSeq(RaceStream, 1, r.fed)
          /\ todo = [c \in Callers |->
                        IF r.ops[c] = "idle" THEN <<>>
                        ELSE << [op |-> r.ops[c],
                                 arg |-> IF r.ops[c] = "Write"
                                         THEN RaceChunk(c, r.lens[c]) ELSE <<>>] >>]
    /\ want = NoDigest
    /\ hasher = Hasher_Write(ZeroHasher, input).h
    /\ pos = 0 /\ nwrites = 0 /\ resets = 0
    /\ got = NoDigest /\ gotFresh = NoDigest /\ gotTwin = NoDigest
    /\ sumsBefore = FALSE /\ panicked = FALSE
    /\ fresh = <<>> /\ twin = <<>>
    /\ InitPar
    /\ useSHA3 = FALSE
    /\ variants = {}
    /\ shared = hasher
    /\ frame = [c \in Callers |-> IdleFrame]
    /\ overlap = FALSE

\* The steps of caller c's call.
RaceOf(c) ==
    \/ RaceTopUp(c) \/ RaceAbsorb(c) \/ RaceBlock(c) \/ RaceLeftover(c)
    \/ RaceReset(c) \/ RaceSum256(c)

NextRace == \E c \in Callers : StmtCall(c) \/ RaceOf(c)

SpecRace == InitRace /\ [][NextRace]_vars

(***************************************************************************)
(* The properties.                                                         *)
(***************************************************************************)
\* The bytes written to h since it was constructed or Reset.
Written == SubSeq(input, 1, pos)

\* C1. Chunk-invariance: after Write was called on a zero-value Hasher once per chunk
\* of a partition of D, in order, and Sum256 then, the digest returned is Sum256(D).
C1_ChunkInvariance ==
    (got # NoDigest /\ ~sumsBefore /\ fresh = <<>>) => got = Sum256(Written).digest

\* More than a block was written in three chunks that end off the block boundary,
\* and Sum256 called.
C1_Witness ==
    /\ got # NoDigest /\ ~sumsBefore /\ fresh = <<>>
    /\ nwrites = 3 /\ pos > rate /\ hasher.absorbed > 0

\* An independent Keccak-256: the message padded with pad10*1 after the domain bits of
\* 0x01 to a multiple of the rate, absorbed block by block with a bytewise XOR into the
\* first rate bytes and a permutation, and the first 32 bytes squeezed.
Pad101(m) ==
    LET q == rate - (Len(m) % rate)
    IN IF q = 1 THEN m \o <<129>>
       ELSE m \o <<1>> \o [k \in 1..(q - 2) |-> 0] \o <<128>>

RefAbsorb(s, block) ==
    keccakF1600(Array([j \in 1..200 |-> IF j <= rate THEN Xor8(s[j], block[j]) ELSE s[j]]))

RECURSIVE RefSponge(_, _)
RefSponge(s, m) ==
    IF Len(m) = 0 THEN s
    ELSE LET u == RefAbsorb(s, SubSeq(m, 1, rate))
         IN IF Len(u) = 200 THEN RefSponge(u, SubSeq(m, rate + 1, Len(m))) ELSE <<>>

RefKeccak256(m) == SubSeq(RefSponge(Zero200, Pad101(m)), 1, 32)

\* C2. Sum256(data) is the digest an independent reference Keccak-256 gives for data.
C2_MatchesReference ==
    want # NoDigest => want = RefKeccak256(input)

\* Sum256 returned for an input of rate - 1 bytes, where the padding is one byte.
C2_Witness ==
    want # NoDigest /\ Len(input) = rate - 1

\* The digests the tests expect (TestSum256Empty, TestSum256Hello).
EmptyDigest ==
    <<197, 210, 70, 1, 134, 247, 35, 60, 146, 126, 125, 178, 220, 199, 3, 192,
      229, 0, 182, 83, 202, 130, 39, 59, 123, 250, 216, 4, 93, 133, 164, 112>>
HelloDigest ==
    <<28, 138, 255, 149, 6, 133, 194, 237, 75, 195, 23, 79, 52, 114, 40, 123,
      86, 217, 81, 123, 156, 148, 129, 39, 49, 154, 9, 167, 163, 109, 234, 200>>

\* C3. Known vectors: Sum256 of the empty input is c5d24601...5d85a470 and Sum256 of
\* "hello" is 1c8aff95...a36deac8.
C3_KnownVectors ==
    want # NoDigest =>
        /\ input = <<>> => want = EmptyDigest
        /\ input = Hello => want = HelloDigest

\* Sum256("hello") returned.
C3_Witness ==
    want # NoDigest /\ input = Hello

\* C4. Hasher.Sum256 is non-destructive: a call leaves the hasher's state, buf and
\* absorbed as they were.  (A step that leaves a digest in got is a call of h.Sum256.)
C4_SumNonDestructive ==
    [][got' # NoDigest => hasher' = hasher]_vars

\* Sum256 was called on a hasher that has absorbed blocks and holds pending bytes.
C4_Witness ==
    got # NoDigest /\ hasher.absorbed > 0 /\ pos > rate /\ hasher.state # Zero200

\* C5. On a hasher that started from the zero value, every Sum256 returns the one-shot
\* digest of all the bytes written before it, whether or not Sum256 was called earlier
\* in the stream; and Sum256 called again with no Write in between returns the same.
C5_SumOfWritten ==
    (got # NoDigest /\ fresh = <<>>) => got = Sum256(Written).digest
C5_SumAgain ==
    got # NoDigest /\ got' # NoDigest => got' = got
C5_EverySum ==
    [](C5_SumOfWritten) /\ [][C5_SumAgain]_vars

\* Sum256 was called in the middle of the stream, more than a block was written in
\* all, and Sum256 was called again.
C5_Witness ==
    got # NoDigest /\ sumsBefore /\ fresh = <<>> /\ pos > rate /\ hasher.absorbed > 0

\* C6. Reset equivalence: after h.Reset(), h returns for any calls the digests a fresh
\* Hasher returns for the same calls.
C6_ResetEquivalence ==
    (fresh # <<>> /\ got # NoDigest) => got = gotFresh

\* h was written, Reset, written again and Sum256 called, and h's buffer still holds
\* bytes from before the Reset that the fresh Hasher's does not.
C6_Witness ==
    fresh # <<>> /\ got # NoDigest /\ pos > 0 /\ hasher.buf # fresh[1].buf

\* C7. Pending-count invariant: between calls 0 <= absorbed < rate.
C7_PendingCount ==
    0 <= hasher.absorbed /\ hasher.absorbed < rate

\* Two or more chunks filled the buffer exactly: it was absorbed and the count is 0.
C7_Witness ==
    nwrites >= 2 /\ pos = rate /\ fresh = <<>> /\ hasher.absorbed = 0 /\ hasher.state # Zero200

\* C8. Totality: no call of Write, Hasher.Sum256 or Reset panicked, and Sum256 of the
\* bytes written completes too.
C8_NoPanic ==
    ~panicked /\ Sum256(Written).ok

\* Sum256 was called with the buffer one byte short of full: both padding bytes go
\* to state[rate-1].
C8_Witness ==
    ~panicked /\ got # NoDigest /\ hasher.absorbed = rate - 1

\* What thread t's calls return, and leave in its Hasher, when they run alone.
SeqHasher(t) == Hasher_Write(Hasher_Write(ZeroHasher, ParChunk(t, 2)).h, ParChunk(t, 3)).h
SeqHashers == Array([t \in Threads |-> SeqHasher(t)])
SeqOut ==
    Array([t \in Threads |-> <<Sum256(ParData(t)).digest, Hasher_Sum256(SeqHasher(t)).digest>>])

\* C9. Independence of instances: however the threads' steps interleave, every call
\* returns what it returns when the calls run one after another, and a step of one
\* thread leaves the other threads' Hashers and `state` arrays as they were.  (Every
\* step of a thread changes its pc, its call or its rem.)
C9_SameAsSequential ==
    \A t \in Threads :
        /\ pc[t] # "panic"
        /\ \A c \in 1..Len(out[t]) : out[t][c] = SeqOut[t][c]
        /\ Op(t) = "done" => hs[t] = SeqHashers[t]
C9_OthersUntouched ==
    \A t \in Threads :
        (pc'[t] = pc[t] /\ call'[t] = call[t] /\ rem'[t] = rem[t])
            => (hs'[t] = hs[t] /\ local'[t] = local[t])
C9_Independence ==
    [](C9_SameAsSequential) /\ [][C9_OthersUntouched]_vars

\* Thread 2 made all its calls while thread 1 was inside Sum256, one block absorbed.
C9_Witness ==
    /\ Op(1) = "Sum256" /\ pc[1] = "loop" /\ Len(rem[1]) < rate
    /\ Op(2) = "done" /\ Len(out[2]) = 2

\* The sponge state after the first k blocks of the stream: each XORed bytewise into
\* the first rate bytes and permuted, in order, from the all-zero state.
StreamSponge ==
    Array([k \in 1..(Len(Stream) \div rate + 1) |->
              RefSponge(Zero200, SubSeq(Stream, 1, (k - 1) * rate))])

\* C14. Streaming refinement: after any Write calls on a zero-value or just Reset
\* Hasher whose chunks concatenate to D, with k = floor(len(D)/rate), the hasher's
\* state is the sponge state after absorbing and permuting the first k blocks of D
\* in order from the all-zero state, and buf[0:absorbed] is the last len(D) mod rate
\* bytes of D: no byte is absorbed twice, skipped or out of order.
C14_StreamingRefinement ==
    /\ Written = SubSeq(Stream, 1, pos)
    /\ hasher.state = StreamSponge[pos \div rate + 1]
    /\ hasher.absorbed = pos % rate
    /\ SubSeq(hasher.buf, 1, hasher.absorbed) = SubSeq(Written, pos - (pos % rate) + 1, pos)

\* After a Reset, two chunks were written of which the second completed a block from
\* the buffer and left bytes pending.
C14_Witness ==
    /\ fresh # <<>> /\ got = NoDigest
    /\ pos > rate /\ pos < 2 * rate /\ hasher.absorbed > 0
    /\ hasher.state = RefAbsorb(Zero200, SubSeq(Written, 1, rate))

\* C19. Stale pending bytes never leak into a digest: Reset clears state and
\* absorbed but not buf, and Write leaves old bytes in buf from absorbed on; two
\* Hashers with the same state and absorbed and the same buf[0:absorbed], whatever
\* differs in buf[absorbed:rate], return the same digests for every sequence of
\* Write, Sum256 and Reset calls after that.
C19_StaleBytesHidden ==
    /\ twin # <<>>
    /\ twin[1].state = hasher.state
    /\ twin[1].absorbed = hasher.absorbed
    /\ SubSeq(twin[1].buf, 1, twin[1].absorbed) = SubSeq(hasher.buf, 1, hasher.absorbed)
    /\ gotTwin = got

\* Both Hashers were written more than a block and returned a digest, with bytes
\* pending and the buffers different after them.
C19_Witness ==
    /\ got # NoDigest /\ gotTwin = got
    /\ pos > rate /\ hasher.absorbed > 0
    /\ \E j \in (hasher.absorbed + 1)..rate : twin[1].buf[j] # hasher.buf[j]

(***************************************************************************)
(* The properties of the statements.                                       *)
(***************************************************************************)
\* What the padding XORs into byte j (counted from 1) after a tail of t bytes.
PadMask(j, t) == (IF j = t + 1 THEN 1 ELSE 0) + (IF j = rate THEN 128 ELSE 0)

\* C11. Padding rule: at finalization, in Sum256 and in Hasher.Sum256, with t tail or
\* pending bytes (0 <= t < rate), the code XORs 0x01 into state[t] and then 0x80 into
\* state[rate-1], two XORs one after the other, and changes no other byte before the
\* last permutation; with t = rate-1 both land on byte rate-1, XORed with 0x81 in all.
C11_Padded ==
    \A c \in Callers :
        (frame[c].line \in {37, 87} /\ ~frame[c].panic) =>
            /\ Len(frame[c].xin.data) < rate
            /\ \A j \in 1..200 :
                 frame[c].state[j] =
                     Xor8(frame[c].xin.after[j], PadMask(j, Len(frame[c].xin.data)))
C11_TwoXors ==
    \A c \in Callers :
        /\ (frame[c].line \in {34, 85} /\ frame'[c].line \in {36, 86}) =>
               frame'[c].state =
                   [j \in 1..200 |->
                       IF j = Len(frame[c].xin.data) + 1 THEN Xor8(frame[c].state[j], 1)
                       ELSE frame[c].state[j]]
        /\ (frame[c].line \in {36, 86} /\ frame'[c].line \in {37, 87}) =>
               frame'[c].state =
                   [j \in 1..200 |->
                       IF j = rate THEN Xor8(frame[c].state[j], 128) ELSE frame[c].state[j]]
C11_PaddingRule ==
    [](C11_Padded) /\ [][C11_TwoXors]_vars

\* Hasher.Sum256 is about to permute with rate-1 bytes pending: byte rate-1 holds the
\* last pending byte XORed with 0x81, which is not the 0x80 a store would leave.
C11_Witness ==
    /\ At(1, "Hasher.Sum256", 87)
    /\ shared.absorbed = rate - 1 /\ Len(frame[1].xin.data) = rate - 1
    /\ frame[1].state[rate] = Xor8(frame[1].xin.after[rate], 129)
    /\ frame[1].state[rate] # 128

\* The bytewise XOR of data into the beginning of state.
PlainXor(state, data) ==
    [j \in 1..200 |-> IF j <= Len(data) THEN Xor8(state[j], data[j]) ELSE state[j]]

\* C12. xorIn(state, data) is a plain bytewise XOR for every data of at most rate
\* bytes: afterwards state[i] is the old state[i] XOR data[i] for i < len(data) and
\* unchanged for i >= len(data), whatever len(data) mod 8 is; it runs no permutation
\* and leaves data as it was.
C12_BytewiseXor ==
    \A c \in Callers :
        (frame[c].xin # NoXorIn /\ Len(frame[c].xin.data) <= rate) =>
            /\ frame[c].xin.ok /\ ~frame[c].panic
            /\ frame[c].xin.after = PlainXor(frame[c].xin.before, frame[c].xin.data)
            /\ frame[c].line = 104 =>
                   /\ frame[c].state = frame[c].xin.after
                   /\ frame[c].p = frame[c].arg /\ frame[c].p = frame[c].xin.data
                   /\ frame[c].perms = 0 /\ variants = {}

\* xorIn returned for data of 8 * 16 + 7 bytes, lanes and single bytes, on an array
\* that was not zero.
C12_Witness ==
    /\ frame[1].op = "xorIn" /\ frame[1].line = 104
    /\ Len(frame[1].xin.data) = rate - 1
    /\ frame[1].xin.before # Zero200
    /\ frame[1].xin.after # frame[1].xin.before

\* C13. Pending-count tracking in Write: when Write returns for a chunk of n bytes
\* (n = 0, a chunk that only partly tops up the buffer and one that ends on a block
\* boundary among them) on a Hasher with absorbed = a, absorbed is (a + n) mod rate
\* and the call ran the permutation floor((a + n) / rate) times; a top-up that does
\* not complete a block, with nothing left over, leaves absorbed = a + n, not 0.
C13_WriteCounts ==
    \A c \in Callers :
        (frame[c].op = "Write" /\ frame[c].line = 78) =>
            /\ ~frame[c].panic
            /\ shared.absorbed = (frame[c].entry.absorbed + Len(frame[c].arg)) % rate
            /\ frame[c].perms = (frame[c].entry.absorbed + Len(frame[c].arg)) \div rate

\* Write returned for a chunk that only partly topped up the buffer.
C13_Witness ==
    /\ frame[1].op = "Write" /\ frame[1].line = 78
    /\ frame[1].entry.absorbed > 0 /\ Len(frame[1].arg) > 0
    /\ frame[1].entry.absorbed + Len(frame[1].arg) < rate
    /\ shared.absorbed = frame[1].entry.absorbed + Len(frame[1].arg)
    /\ frame[1].perms = 0

\* C15. Full-block fast path: in Write, whole blocks of the chunk that begin when
\* nothing is pending are XORed into state straight from the chunk and never copied
\* to buf; so a Write called with absorbed = 0 and a chunk of a multiple of rate
\* bytes (0 among them) leaves buf and absorbed as they were, and buf is written only
\* by the top-up copy (line 59) and the copy of the last leftover (line 76).
C15_Unchanged ==
    \A c \in Callers :
        (/\ frame[c].op = "Write" /\ frame[c].line = 78
         /\ frame[c].entry.absorbed = 0 /\ Len(frame[c].arg) % rate = 0) =>
            /\ shared.buf = frame[c].entry.buf
            /\ shared.absorbed = frame[c].entry.absorbed
C15_BufWriters ==
    /\ shared'.buf # shared.buf =>
           \E c \in Callers : frame[c].line \in {59, 76} /\ frame'[c] # frame[c]
    /\ \A c \in Callers :
           (frame[c].line = 70 /\ frame'[c].line = 71) =>
               /\ frame'[c].xin.data = SubSeq(frame[c].p, 1, rate)
               /\ frame'[c].xin.before = shared.state
               /\ shared'.state = frame'[c].xin.after
C15_FastPath ==
    [](C15_Unchanged) /\ [][C15_BufWriters]_vars

\* Write returned for a chunk of one block on a Hasher that had been Reset with
\* bytes of the earlier stream in its buffer: the block went in at line 70.
C15_Witness ==
    /\ frame[1].op = "Write" /\ frame[1].line = 78
    /\ frame[1].entry.absorbed = 0 /\ Len(frame[1].arg) = rate
    /\ frame[1].entry.buf # ZeroHasher.buf
    /\ frame[1].perms = 1 /\ frame[1].xin.data = frame[1].arg

\* C16. Sum256 terminates for every finite input and runs the permutation exactly
\* floor(len(data)/rate) + 1 times: once per whole block in the loop, each turn
\* shortening data by rate bytes, and once more after the padding; an input of a
\* multiple of rate bytes (the empty one too) has an empty tail and still gets a
\* block of padding alone and its permutation.  (Termination: the call is always at
\* a line that has a statement to run, and every statement either shortens data or
\* leaves it and moves down the function.)
C16_Counts ==
    \A c \in Callers :
        frame[c].op = "Sum256" =>
            /\ ~frame[c].panic
            /\ frame[c].line \in {22, 26, 27, 33, 34, 36, 37, 40, 41}
            /\ frame[c].line = 41 =>
                   /\ Len(frame[c].ret) = 32
                   /\ frame[c].perms = Len(frame[c].arg) \div rate + 1
                   /\ Len(frame[c].xin.data) = Len(frame[c].arg) % rate
C16_Progress ==
    \A c \in Callers :
        (frame[c].op = "Sum256" /\ frame'[c].op = "Sum256" /\ frame'[c] # frame[c]) =>
            /\ \/ Len(frame'[c].p) < Len(frame[c].p)
               \/ Len(frame'[c].p) = Len(frame[c].p) /\ frame'[c].line > frame[c].line
            /\ frame[c].line = 27 =>
                   /\ Len(frame'[c].p) = Len(frame[c].p) - rate
                   /\ frame'[c].perms = frame[c].perms + 1
C16_SumPermutations ==
    [](C16_Counts) /\ [][C16_Progress]_vars

\* Sum256 returned for an input of exactly one block: the loop permuted once, the
\* tail was empty and the padding was permuted alone.
C16_Witness ==
    /\ frame[1].op = "Sum256" /\ frame[1].line = 41
    /\ Len(frame[1].arg) = rate /\ frame[1].xin.data = <<>>
    /\ frame[1].perms = 2

\* C17. The variant of the permutation is chosen once and stays for the life of the
\* process: on arm64 useSHA3 is assigned at package initialization only and never
\* written afterwards, so every keccakF1600 call, across the Sum256 calls and the
\* Write and Sum256 calls of a Hasher's stream, dispatches to the same variant, NEON
\* or generic, and never changes it in mid-stream.
C17_OneVariant ==
    variants \subseteq {IF useSHA3 THEN "NEON" ELSE "Generic"}
C17_FlagKept ==
    useSHA3' = useSHA3
C17_VariantFixed ==
    [](C17_OneVariant) /\ [][C17_FlagKept]_vars

\* On darwin the whole script has run, Sum256 and the Hasher's stream of more than a
\* block, and every permutation was the NEON one.
C17_Witness ==
    /\ useSHA3 /\ variants = {"NEON"}
    /\ todo[1] = <<>> /\ frame[1].op = "Hasher.Sum256" /\ frame[1].line = 89
    /\ Len(input) > rate

\* SpecRace: both calls have returned; the Hasher as it was before them; the Hasher a
\* call leaves and what it returns when it runs alone on h; what the two calls leave
\* and return when caller c's runs first and the other's after it.
RaceDone == \A c \in Callers : todo[c] = <<>> /\ frame[c].line \in ReturnLines
RaceBefore == Hasher_Write(ZeroHasher, input).h
RaceApply(h, f) ==
    CASE f.op = "Write" -> Hasher_Write(h, f.arg).h
      [] f.op = "Reset" -> Hasher_Reset(h)
      [] f.op = "Hasher.Sum256" -> h
RaceReturn(h, f) == IF f.op = "Hasher.Sum256" THEN Hasher_Sum256(h).digest ELSE <<>>
RaceOrder(c) ==
    [h |-> RaceApply(RaceApply(RaceBefore, frame[c]), frame[3 - c]),
     ret |-> [u \in Callers |->
                 RaceReturn(IF u = c THEN RaceBefore ELSE RaceApply(RaceBefore, frame[c]),
                            frame[u])]]
RaceSequential == {RaceOrder(c) : c \in Callers}
RaceOutcome == [h |-> shared, ret |-> [u \in Callers |-> frame[u].ret]]

\* Both calls are Write calls; the count of pending bytes that either order of the
\* two leaves; the digest of the Hasher is the digest of neither order.
RaceWrites == \A c \in Callers : frame[c].op = "Write"
RaceCount == (Len(input) + Len(frame[1].arg) + Len(frame[2].arg)) % rate
RaceNeitherOrder ==
    \A q \in RaceSequential : Hasher_Sum256(shared).digest # Hasher_Sum256(q.h).digest

\* Caller c's call has read or written h.state, or is about to: Reset and
\* Hasher.Sum256 from their first statement, Write in xorIn and keccakF1600 and
\* after them.  One call at most has.
OnState(c) ==
    \/ frame[c].op \in {"Reset", "Hasher.Sum256"}
    \/ frame[c].op = "Write" /\ (frame[c].perms > 0 \/ frame[c].line \in {63, 64, 70, 71})
RaceStateApart == \E c \in Callers : ~OnState(c)

\* The lines at which a call is in the permutation (Hasher.Sum256 goes from its
\* second read of h.absorbed at line 85 to its return in one step, the permutation
\* of its own array with it).
PermuteLines == {64, 71, 85}

\* C18. Concurrent calls on one Hasher are unsafe: Write has no synchronization, and
\* two Write calls on one Hasher that run at once, their reads and writes of absorbed,
\* buf and state interleaved, can leave it in a state whose Sum256 digest is the
\* digest of neither order of the two chunks (C18_Witness is such a state).  No
\* synchronization: a call that is not in the permutation can take its next step,
\* a load or a store of the Hasher, whatever the other call is doing.  What goes wrong: when two Write calls
\* that ran at once have returned and the count of pending bytes is not the one both
\* orders leave, an update of absorbed was lost and the digest is that of neither
\* order.  Only calls that overlap do this: as long as no call began while another
\* was running, absorbed stays in range, a call that returned before the other began
\* leaves the Hasher as it does alone, and two calls that have returned leave the
\* Hasher, and return, what one of the two orders does.  In the cases of SpecRace no
\* call panics and one call only reads or writes h.state.
C18_UnsafeWhenConcurrent ==
    /\ \A c \in Callers :
          (Running(c) /\ frame[c].line \notin PermuteLines) => ENABLED RaceOf(c)
    /\ \A c \in Callers : ~frame[c].panic
    /\ RaceStateApart
    /\ (RaceDone /\ RaceWrites /\ shared.absorbed # RaceCount) => overlap /\ RaceNeitherOrder
    /\ ~overlap =>
          /\ shared.absorbed >= 0 /\ shared.absorbed <= rate
          /\ (\A c \in Callers : ~Running(c)) => shared.absorbed < rate
          /\ \A c \in Callers :
                (frame[c].line \in ReturnLines /\ frame[3 - c].op = "idle")
                    => /\ shared = RaceApply(RaceBefore, frame[c])
                       /\ frame[c].ret = RaceReturn(RaceBefore, frame[c])
          /\ RaceDone => RaceOutcome \in RaceSequential

\* Two Write calls ran at once and have returned, and the Hasher's digest is that of
\* neither order of the two chunks.
C18_Witness ==
    /\ RaceDone /\ overlap /\ RaceWrites
    /\ shared.absorbed < rate
    /\ RaceNeitherOrder

\* The capacity of a state, its bytes 136..199; the lines that call keccakF1600,
\* the lines that call xorIn, and the lines of the three functions that return.
Capacity(state) == SubSeq(state, rate + 1, 200)
KeccakLines == {27, 37, 64, 71, 87}
XorInLines == {26, 33, 63, 70, 84}
DigestLines == {40, 88}

\* C20. The capacity is never touched directly: in Sum256, Hasher.Write and
\* Hasher.Sum256 the bytes of the input and of the padding are XORed into positions
\* 0..rate-1 of the state only; bytes 136..199 of a state are changed by the
\* permutation alone (line 83 begins a state as a copy of h.state), and the digest
\* returned is bytes 0..31 of the state.
C20_Statement ==
    \A c \in Callers :
        ( /\ Running(c) /\ frame'[c] # frame[c]
          /\ frame[c].op \in {"Sum256", "Write", "Hasher.Sum256"} ) =>
            /\ ~frame'[c].panic
            /\ frame[c].line \notin KeccakLines \cup {83} =>
                   /\ Capacity(frame'[c].state) = Capacity(frame[c].state)
                   /\ Capacity(shared'.state) = Capacity(shared.state)
            /\ frame[c].line = 83 => frame'[c].state = shared.state /\ shared' = shared
            /\ frame[c].line \in XorInLines =>
                   /\ Len(frame'[c].xin.data) <= rate
                   /\ \A j \in (Len(frame'[c].xin.data) + 1)..200 :
                          frame'[c].xin.after[j] = frame'[c].xin.before[j]
            /\ frame[c].line \in DigestLines =>
                   frame'[c].ret = SubSeq(frame[c].state, 1, 32)
C20_CapacityUntouched ==
    [][C20_Statement]_vars

\* h.Sum256() has returned the digest of more than a block: the permutation has
\* changed the capacity of h.state, and pending bytes and padding were XORed into a
\* copy of it.
C20_Witness ==
    /\ frame[1].op = "Hasher.Sum256" /\ frame[1].line = 89
    /\ shared.absorbed > 0 /\ Len(frame[1].xin.data) = shared.absorbed
    /\ Capacity(shared.state) # Capacity(Zero200)
    /\ Capacity(frame[1].state) # Capacity(shared.state)
    /\ frame[1].ret = SubSeq(frame[1].state, 1, 32)

====
